---- MODULE Spec2Model ----
(***************************************************************************)
(* Lease-based scheduler of stargazer-rs: task documents in the shared     *)
(* store, one ScheduleActor per worker, the ScheduleOp lease protocol      *)
(* (takeover of outdated entries, steal from overloaded peers), the        *)
(* schedule driver with its timers, the task runners with their heartbeat  *)
(* and their guarded publish.                                              *)
(*                                                                         *)
(* Every store call is one atomic step; the awaits between the calls of    *)
(* one operation are interleaving points, and the clock may advance at     *)
(* any of them unless the schedule driver has work due.                    *)
(***************************************************************************)
EXTENDS Integers, Sequences, FiniteSets, TLC

\* ------------------------------------------------------------------ bounds
\* schedulers and documents of each specification
NSched == 3
NDoc == 2
NTakeoverSched == 2
NRunnerSched == 2
NRunnerDoc == 2
NBalanceSched == 2
NBalanceDoc == 3
NTimedSched == 2
NTimedDoc == 2
\* exploration budgets
MaxTime == 2
\* the clock of the runners' specification
MaxRunnerTime == 3
\* task documents inserted while the schedulers run
MaxSets == 1
\* clock units that pass while the driver has something due
MaxLate == 1
MaxStealOps == 2
MaxTakeoverRequests == 3
MaxRequests == 2
MaxBeats == 1
MaxErrors == 1
MaxScheduleAlls == 2
\* the collector: events published, failures of its calls
MaxEvents == 3
MaxFailures == 2
\* heartbeats: documents, cursor values, UpdateAll messages
NHeartbeatDoc == 1
MaxCursor == 1
MaxUpdateAlls == 1
\* admin API: entity names, concurrent clients, requests
NName == 1
NClient == 2
MaxHttp == 2
\* the killer: actors that are dropped, scheduled pieces of work
MaxDrops == 2
MaxWork == 2
\* no-HTTP mode: workers, polls of the server future
MaxWorkers == 3
MaxPolls == 3
\* the message request: messages of other senders
MaxOthers == 3

\* ------------------------------------------------------- program constants
\* ScheduleConfig.max_interval in clock units of the model (one unit is one
\* value of timestamp(), a millisecond in the code).
MaxIntervalMs == 1
\* the period of a runner's run_interval(max_interval / 2), in half clock
\* units: the Duration is halved exactly
HeartbeatInterval == MaxIntervalMs
\* the clock values by which an instant less than one heartbeat interval
\* after an instant of clock value t can exceed t
HeartbeatSpan == (HeartbeatInterval + 1) \div 2
\* ScheduleConfig.schedule_interval and balance_interval, in clock units
ScheduleInterval == 2
BalanceInterval == 3
\* the largest delay of notify_later in the driver: gen_range(0..1000) ms
MaxJitter == 1
\* the collectors enabled by Collector::default(): amqp
NDest == 1
\* the capacity of a destination's ArrayDeque (1024 in the code)
RingCapacity == 2
\* Duration::from_secs(10) of the collector's retry, in clock units
RetryDelay == 2
\* the capacity of an actor's mailbox (16 in actix)
MailboxCapacity == 2

Sched == 1..NSched
TakeoverSched == 1..NTakeoverSched
RunnerSched == 1..NRunnerSched
TimedSched == 1..NTimedSched
BalanceSched == 1..NBalanceSched
NoTs == -1
NoUuid == 0
NoParent == 0
NoTimer == -1
NoBody == -1
NoCursor == 0

VARIABLES
    now,        \* SystemTime::now() as timestamp()
    docs,       \* the task collection: doc_id -> [ts, uuid, parent, since]
    nextUuid,   \* number of Uuid::new_v4() drawn for leases so far
    sop,        \* per scheduler: the ScheduleOp being executed (TrySchedule)
    actors,     \* per scheduler: ScheduleContext.actors as a set of runner ids
    runners,    \* every task runner ever constructed, in construction order
    uaPending,  \* per scheduler: the unfinished futures of its UpdateAlls
    drv,        \* the ScheduleDriverActor: timers, ScheduleAll in progress
    published,  \* events handed to the collector: [rid, item, held, ...]
    acquired,   \* history of the lease operations (takeover, steal, conflict)
    budget,     \* what is left of each exploration budget
    pubs,       \* collector: Publish messages whose expand() is in flight
    collectors, \* CollectorActor.collectors: destination -> Context
    wakes,      \* per destination: due times of the pending Wake messages
    delivered,  \* per destination: the events its recipient accepted, in order
    chist,      \* history of the collector: sent, lost, dropped, failed, resent
    vtubers,    \* manager: the vtuber collection, [id, name, fields]
    entries,    \* manager: the documents the fields of the vtubers refer to
    nextOid,    \* manager: number of ObjectIds drawn so far
    http,       \* manager: per client, the admin request being handled
    killer,     \* KillerActor, its mailbox, the system and the HTTP server
    arb,        \* no-HTTP mode: the workers, the stop channel, ArbiterHandler
    bcast,      \* InstanceContext: the workers and the broadcast in progress
    mreq        \* a MsgRequest, its target's mailbox and what was done to it

collvars == <<pubs, collectors, wakes, delivered, chist>>

mgrvars == <<vtubers, entries, nextOid, http>>

miscvars == <<mgrvars, killer, arb, bcast, mreq>>

vars == <<now, docs, nextUuid, sop, actors, runners, uaPending, drv, published, acquired, budget,
          pubs, collectors, wakes, delivered, chist,
          vtubers, entries, nextOid, http, killer, arb, bcast, mreq>>

\* ------------------------------------------------------------ pure helpers

\* utils.rs timestamp(): milliseconds since the epoch
timestamp(t) == t

\* models.rs TaskInfo as stored in / read from a document
TaskInfo(d, u, p) == [doc |-> d, uuid |-> u, parent |-> p]
InfoOfDoc(d) == TaskInfo(d, docs[d].uuid, docs[d].parent)

NoInfo == TaskInfo(0, NoUuid, NoParent)

\* ops.rs ScheduleMode
ScheduleMode == {"Auto", "OutdatedOnly", "StealOnly"}

\* no UpdateEntryOp is executing
NoUpdate == [rid |-> 0, which |-> "none", body |-> NoBody, ts |-> NoTs,
             res |-> "none", matched |-> FALSE]

\* msg is the mode of the TrySchedule message, mode that of the ScheduleOp;
\* pc "update" and "updated" are the two halves of a Handler<UpdateEntry>,
\* whose UpdateEntryOp is ue
IdleOp == [pc |-> "idle", since_ts |-> 0, now_ts |-> 0, uuid |-> NoUuid,
           actor_count |-> 0, entries_count |-> 0, threshold |-> 0,
           victim |-> NoParent, victim_task |-> NoInfo,
           msg |-> "Auto", mode |-> "Auto", ue |-> NoUpdate]

\* ScheduleOp::execute_impl: the first store call of a ScheduleOp
FirstStep(mode) == IF mode = "StealOnly" THEN "count" ELSE "acquire"

\* the mode Handler<TrySchedule> gives to ScheduleOp::new for message _msg
HandlerMode(msg) == "Auto"

\* mutation: the filter uses $lte instead of $lt
Outdated_Lte(d, since_ts) == docs[d].ts = NoTs \/ docs[d].ts <= since_ts

\* do_acquire's filter: timestamp < since_ts or timestamp missing
Outdated(d, since_ts) == docs[d].ts = NoTs \/ docs[d].ts < since_ts

\* "updated recently" filter of GetWorkerInfoOp / GetTasksOnWorkerOp
Recent(d, since_ts) == docs[d].ts # NoTs /\ docs[d].ts >= since_ts

\* the documents of the task collection
Docs == DOMAIN docs

\* GetAllTasksCount: count_documents(base_query), base_query = T::query() = {}
GetAllTasksCount == Cardinality(Docs)

\* GetWorkerInfoOp: group recent documents of other parents by parent_uuid
GetWorkerInfoOp(since_ts, parent_id) ==
    LET match(d) == docs[d].parent # parent_id /\ Recent(d, since_ts)
        ids == {docs[d].parent : d \in {e \in Docs : match(e)}}
    IN {[id |-> p, count |-> Cardinality({d \in Docs : match(d) /\ docs[d].parent = p})] : p \in ids}

\* GetTasksOnWorkerOp: recent documents whose parent_uuid is the worker
GetTasksOnWorkerOp(since_ts, worker) ==
    {InfoOfDoc(d) : d \in {e \in Docs : docs[e].parent = worker /\ Recent(e, since_ts)}}

\* mutation: the scheduler takes itself for idle
SchedulerMeta_Zero(s) == 0

\* SchedulerMeta::from: actor_count is the number of keys of ctx.actors
SchedulerMeta(s) == Cardinality({runners[i].info : i \in actors[s]})

\* the $set document built by ScheduleOp::new, applied to document d
ScheduleUpdate(d, s, op) ==
    [docs EXCEPT ![d].ts = op.now_ts, ![d].uuid = op.uuid, ![d].parent = s]

\* mutation: the filter matches on _id alone
CheckOwnershipOp_DocOnly(info) == info.doc \in Docs

\* CheckOwnershipOp: find_one(to_document(info)) is some
CheckOwnershipOp(info) ==
    /\ info.doc \in Docs
    /\ docs[info.doc].uuid = info.uuid
    /\ docs[info.doc].parent = info.parent

\* mutation: the filter matches on _id alone
UpdateEntryMatched_DocOnly(info) == info.doc \in Docs

\* UpdateEntryOp filter {_id, uuid}
UpdateEntryMatched(info) == docs[info.doc].uuid = info.uuid

\* the $set document of UpdateEntryOp applied to a document: the fields of
\* the body (TwitterSince: since) if there is one, and the timestamp
SetBody(doc, body, ts) ==
    IF body = NoBody
    THEN [doc EXCEPT !.ts = ts]
    ELSE [doc EXCEPT !.ts = ts, !.since = body]

\* UpdateEntryOp result: modified_count > 0. The store counts a matched
\* document as modified only if the $set changes a value; with an empty body
\* the only value set is the timestamp.
UpdateEntryModified(info, body, ts) ==
    UpdateEntryMatched(info) /\ SetBody(docs[info.doc], body, ts) # docs[info.doc]

\* mutation: a heartbeat resets the cursor
UpdateEntryOp_ResetCursor(info, body, ts) ==
    IF UpdateEntryMatched(info)
    THEN [docs EXCEPT ![info.doc] = [SetBody(@, body, ts) EXCEPT !.since = NoCursor]]
    ELSE docs

\* UpdateEntryOp::execute_impl on the store: update_one with $set body
UpdateEntryOp(info, body, ts) ==
    IF UpdateEntryMatched(info)
    THEN [docs EXCEPT ![info.doc] = SetBody(@, body, ts)]
    ELSE docs

\* the DBResult<bool> of UpdateEntryOp; ok = FALSE is a store error
UpdateEntryResult(ok, info, body, ts) ==
    IF ~ok THEN "err"
    ELSE IF UpdateEntryModified(info, body, ts) THEN "true" ELSE "false"

\* mutation: a failed request counts as holding ownership (unwrap_or(true))
HoldingOwnership_ErrIsTrue(reply) == reply # "false"

\* what the sender of UpdateEntry makes of the reply:
\* res.unwrap_or(Ok(false)).unwrap_or(false)
HoldingOwnership(reply) == reply = "true"

\* the lease incarnation (doc_id, lease_uuid) of info is the current one
LeaseHeld(info) == info.doc \in Docs /\ docs[info.doc].uuid = info.uuid

\* a runner constructed at clock value t from an entry whose cursor is
\* since. Clock value t is the half units 2t and 2t + 1; hbDue is the half
\* unit in which its interval is due next, one period after the first half
\* unit of the clock value in which the runner started or after the half
\* unit in which it was last due, hbFired whether it has fired;
\* upstream the state of its connection; reqs are its requests to the
\* scheduler, in the order they were sent, fetching the cursors its awaited
\* fetches started from, notified the ToCollector messages it has not
\* handled (each the cursor that covers its events). falseAt is the clock
\* value at which the scheduler first answered false to a periodic renewal
\* of the runner; late records that more than a heartbeat interval passed
\* while the runner had that answer to handle.
NewRunner(info, t, since) ==
    [info |-> info, alive |-> TRUE, reqs |-> <<>>,
     item |-> 0, lostSeen |-> FALSE,
     hbDue |-> 2 * t + HeartbeatInterval, hbFired |-> FALSE,
     fetching |-> <<>>, notified |-> <<>>,
     since |-> since, upstream |-> "starting", stopping |-> FALSE,
     falseAt |-> NoTs, late |-> FALSE]

\* an UpdateEntry sent to the scheduler. which = "hb" is the empty_payload
\* of the periodic renewal; which = "tc" is the empty_payload
\* of the ToCollector handler for item number item, whose events cursor
\* covers; which = "cu" is UpdateEntry::new with the cursor body. st is
\* "sent" until the scheduler has handled it, then the reply; matched
\* records whether the lease was the current one when it was handled.
UpdateEntry_new(which, item, body, cursor) ==
    [which |-> which, item |-> item, body |-> body, cursor |-> cursor,
     st |-> "sent", matched |-> FALSE]

\* the requests of runner r the scheduler has not handled
SentRequests(r) == {k \in 1..Len(r.reqs) : r.reqs[k].st = "sent"}

\* the request of runner r the scheduler handles next: its mailbox keeps the
\* order in which one sender sent
NextSent(r) == CHOOSE k \in SentRequests(r) : \A j \in SentRequests(r) : k <= j

\* the scheduler's answer to request c has arrived at the runner
Answered(c) == c.st \in {"true", "false", "err"}

\* the reply runner r handles next is that of a which request: replies
\* arrive in the order the scheduler handled the requests
ReplyArrived(r, which) ==
    /\ Len(r.reqs) > 0
    /\ r.reqs[1].which = which
    /\ Answered(r.reqs[1])

\* runner i is alive and has the answer false of a periodic renewal to
\* handle
FailedRenewalPending(i) ==
    /\ runners[i].alive
    /\ \E k \in 1..Len(runners[i].reqs) :
          /\ runners[i].reqs[k].which \in {"hb", "cu"}
          /\ runners[i].reqs[k].st = "false"

\* the half units in which the interval of runner r can be due next: the
\* runner started in the first or in the second half of its clock value, and
\* the interval is due one period after the start, then one period after it
\* was last due
IntervalDue(r) == IF r.hbFired THEN {r.hbDue} ELSE {r.hbDue, r.hbDue + 1}

\* the ownership checks of runner r that were sent for an item
Checks(r) == {r.reqs[k] : k \in {j \in 1..Len(r.reqs) : r.reqs[j].which = "tc"}}

\* sequence q without its k-th element
RemoveAt(q, k) == [j \in 1..(Len(q) - 1) |-> IF j < k THEN q[j] ELSE q[j + 1]]

Rid == 1..Len(runners)

\* act.ctx.actors.insert(info, addr): a HashMap insert replaces an equal key
ActorsInsert(s, info, rid) ==
    {i \in actors[s] : runners[i].info # info} \cup {rid}

\* no future of an UpdateAll is pending
NoUpdateAll == {}

\* the driver before started(): no timer, no ScheduleAll
NoDriver == [pc |-> "idle", addrs |-> <<>>, new_addrs |-> <<>>, waiting |-> 0,
             registered |-> <<>>, registering |-> {}, next_schedule |-> NoTimer,
             next_balance |-> NoTimer, skip_once |-> TRUE, pending |-> <<>>,
             mode |-> "Auto", started |-> NoTimer,
             runs |-> 0, somes |-> 0, startBalanced |-> FALSE, late |-> FALSE]

\* self.addrs of the driver once the schedulers of set S have registered,
\* in the order of their numbers
AddrsOf(S) ==
    CHOOSE q \in [1..Cardinality(S) -> S] :
        \A i, j \in 1..Cardinality(S) : i < j => q[i] < q[j]

\* the number of documents worker s holds in the store
Holds(s) == Cardinality({d \in Docs : docs[d].parent = s})

\* every registered worker holds floor(N/W) or ceil(N/W) documents
Balanced ==
    LET W == Len(drv.registered)
        N == Cardinality(Docs)
        floor == N \div W
        ceil == (N + W - 1) \div W
    IN \A k \in 1..W : Holds(drv.registered[k]) \in {floor, ceil}

\* ------------------------------------------------------- collector helpers

\* the destinations: one Context per CollectorFactory given to new()
Dest == 1..NDest
NoEvent == 0
NoFail == [event |-> NoEvent, overflowed |-> FALSE, full |-> FALSE]

\* Context::default(): State::Uninit and an empty queue
Context_default == [state |-> "Uninit", deadline |-> NoTimer, queue |-> <<>>]

\* the events of a queue or of a delivery sequence
Events(q) == {q[k] : k \in 1..Len(q)}

\* mutation: push_back appends whatever the length
push_back_Unbounded(q, e) == Append(q, e)

\* ArrayDeque<[_; 1024], Wrapping>::push_back: a full deque drops its front
push_back(q, e) ==
    IF Len(q) >= RingCapacity THEN Append(Tail(q), e) ELSE Append(q, e)

\* mutation: the front event is read and left in the queue
pop_front_Peek(q) == q

\* ArrayDeque::pop_front: what is left of a non-empty deque
pop_front(q) == Tail(q)

\* mutation: the unsent event is put back at the back of the queue
push_front_AtBack(q, e) == Append(q, e)

\* ArrayDeque<[_; 1024], Wrapping>::push_front: a full deque drops its back
push_front(q, e) ==
    IF Len(q) >= RingCapacity
    THEN <<e>> \o SubSeq(q, 1, Len(q) - 1)
    ELSE <<e>> \o q

\* ctx.notify(Wake) (t = now) and ctx.notify_later(Wake, t - now): one more
\* pending Wake, due at t; the pending Wakes are kept in the order they are due
Notify(w, t) ==
    LET k == Cardinality({j \in 1..Len(w) : w[j] <= t})
    IN SubSeq(w, 1, k) \o <<t>> \o SubSeq(w, k + 1, Len(w))

\* mutation: no Wake for a destination that was never connected
WakeOnPublish_AvailableOnly(c) == c.state = "Available" /\ c.queue = <<>>

\* Handler<Publish>: the condition under which a Wake is scheduled
WakeOnPublish(c) ==
    \/ c.state = "Available" /\ c.queue = <<>>
    \/ c.state = "Uninit"

\* the branch of Handler<Wake> for Context c at clock value t
Branch(c, t) ==
    CASE c.state = "Available" -> "Send"
      [] c.state = "DelayedEstablish" /\ t >= c.deadline -> "EstablishConnection"
      [] c.state = "DelayedEstablish" -> "EarlyWake"
      [] OTHER -> "EstablishConnection"

NoHistory == [sent |-> 0, lost |-> {},
              dropped |-> [d \in Dest |-> {}],
              popped |-> [d \in Dest |-> FALSE],
              failed |-> [d \in Dest |-> NoFail],
              resent |-> {}]

\* CollectorActor::new: every destination Uninit, nothing pending
CollectorActor_new ==
    /\ pubs = {}
    /\ collectors = [d \in Dest |-> Context_default]
    /\ wakes = [d \in Dest |-> <<>>]
    /\ delivered = [d \in Dest |-> <<>>]
    /\ chist = NoHistory

\* ------------------------------------------------------- admin API helpers

Names == 1..NName
Client == 1..NClient

\* the kinds of field an entity can have: the KEY of the entry types
Kind == {"bililive", "twitter"}

\* Option<&DBRef> of fields.get(KEY): None
NoRef == 0

\* HashMap::new(): no kind is linked
NoFields == [k \in Kind |-> NoRef]

\* Option<Vtuber>: None
NoVtuber == [id |-> 0, name |-> 0, fields |-> NoFields]

\* what a request saw of the store: at its arrival whether the entity and
\* the field existed, at its operation on the reference whether the target
\* document existed ("none" while no such operation was made)
NoSeen == [entity |-> FALSE, field |-> FALSE, target |-> "none"]

\* no request is being handled by the client
IdleHttp == [pc |-> "idle", seq |-> 0, op |-> "none", name |-> 0, kind |-> "none",
             malformed |-> FALSE, refs |-> {}, status |-> 0, seen |-> NoSeen]

\* mutation: every error is answered as a missing entity
status_code_NotFound(err) == 404

\* CrudError::status_code
status_code(err) ==
    CASE err \in {"MissingVtuber", "MissingField"} -> 404
      [] err \in {"DBError", "Inconsistency"} -> 500
      [] err = "InvalidValue" -> 400

\* GetVtuberOp: find_one by name, the first match in insertion order
GetVtuberOp(name) ==
    LET found == {v \in vtubers : v.name = name}
    IN  IF found = {} THEN NoVtuber
        ELSE CHOOSE v \in found : \A w \in found : v.id <= w.id

\* insert_one fails with the write error 11000: a document with this _id
\* is in the collection already. The _id index is the only unique index of
\* the collection: none is created on the name.
DuplicateKey(id) == \E v \in vtubers : v.id = id

\* DBRefGetOp, DBRefSetOp, DBRefDelOp find the target of a reference
TargetExists(ref) == \E e \in entries : e.id = ref

\* the store with every name of present linked to one document of the
\* first kind
StoreWith(present) ==
    LET k0 == "bililive"
        pos(n) == Cardinality({m \in present : m <= n})
    IN  /\ vtubers = {[id |-> 2 * pos(n) - 1, name |-> n,
                       fields |-> [NoFields EXCEPT ![k0] = 2 * pos(n)]] : n \in present}
        /\ entries = {[id |-> 2 * pos(n), kind |-> k0] : n \in present}
        /\ nextOid = 2 * Cardinality(present)

\* the messages of the killer
RegisterHttpServer == [type |-> "RegisterHttpServer", graceful |-> FALSE]
Kill(graceful) == [type |-> "Kill", graceful |-> graceful]

\* KillerActor::new, in a running system with work scheduled; srv is the
\* state of the HTTP server, registered is self.0, stop_graceful the
\* argument of the last stop of the server
KillerActor_new(srv, mailbox, drops, work) ==
    [registered |-> FALSE, mailbox |-> mailbox, srv |-> srv, stop_graceful |-> FALSE,
     system |-> "running", process |-> "running", drops |-> drops, work |-> work,
     asleep |-> 0, killed |-> "no", late |-> 0]

\* no killer in use
NoKiller == KillerActor_new("none", <<>>, 0, 0)
\* ArbiterHandler::new(workers, stop_rx) after Server::run: every worker's
\* watchdog holds a sender of the stop channel; the future was not polled
ArbiterHandler_new(workers, polls) ==
    [workers |-> workers, stop_count |-> workers, queue |-> 0,
     wd |-> [w \in 1..workers |-> "running"], result |-> "created", polls |-> polls]

\* no-HTTP mode not in use
NoArbiter == ArbiterHandler_new(0, 0)

RECURSIVE ArbiterHandler_poll(_, _, _)

\* mutation: the future resolves at the first signal
ArbiterHandler_poll_FirstSignal(stop_count, queue, senders) ==
    IF queue > 0
    THEN [result |-> "ready", stop_count |-> stop_count - 1, queue |-> queue - 1]
    ELSE [result |-> IF senders = 0 THEN "ready" ELSE "pending",
          stop_count |-> stop_count, queue |-> queue]

\* ArbiterHandler::poll: the loop over poll_recv; a signal decrements
\* stop_count and resolves at 0, None (closed and empty) resolves, an open
\* empty channel is Pending
ArbiterHandler_poll(stop_count, queue, senders) ==
    IF queue > 0
    THEN IF stop_count - 1 = 0
         THEN [result |-> "ready", stop_count |-> 0, queue |-> queue - 1]
         ELSE ArbiterHandler_poll(stop_count - 1, queue - 1, senders)
    ELSE [result |-> IF senders = 0 THEN "ready" ELSE "pending",
          stop_count |-> stop_count, queue |-> queue]

\* the senders of the stop channel that were not dropped
Senders(a) == Cardinality({w \in DOMAIN a.wd : a.wd[w] \in {"running", "sent"}})

\* the signals that were sent
Signals(a) == Cardinality({w \in DOMAIN a.wd : a.wd[w] \in {"sent", "sentdropped"}})
\* the reply of worker w's actor to GetId: its own id, a fresh Uuid, here
\* distinct from the worker's position among n
ActorId(w, n) == n + 1 - w

\* InstanceContext with n registered workers: has[w] tells whether the
\* target's address is in worker w's context, val[w] is the reply of its
\* actor to the message; nothing was sent
InstanceContext_new(n, has, val) ==
    [workers |-> n, has |-> has, val |-> val, pc |-> "new",
     mail |-> [w \in 1..n |-> <<>>], sent |-> 0,
     ids |-> <<>>, resps |-> <<>>, result |-> {}]

\* no broadcast in use
NoBroadcast == InstanceContext_new(0, <<>>, <<>>)

\* mutation: the results are collected in the order of completion
join_all_Completed(n, done) == [i \in 1..Len(done) |-> done[i].out]

\* MsgRequestVec, join_all: the outputs in the order of the requests, that
\* of the workers, whatever the order done of their completion
join_all(n, done) ==
    [i \in 1..n |-> (CHOOSE r \in {done[j] : j \in 1..Len(done)} : r.from = i).out]

\* ids.into_iter().zip(resps).collect(): the pairs of the map
Zip(ids, resps) == {<<ids[i], resps[i]>> : i \in 1..Len(ids)}
\* MsgRequest::new: Initial, in the hands of its owner; mailbox is the
\* mailbox of the target, with the messages of other senders, others the
\* messages they have left to send, steps the budget of the calls and
\* polls of the owner. handed counts how often the message was put into
\* the mailbox, parked tells whether a Request holds it for lack of room,
\* outcome is what the owner got.
MsgRequest_new(mailbox, others, steps) ==
    [state |-> "Initial", owner |-> "held", mailbox |-> mailbox, others |-> others,
     steps |-> steps, parked |-> FALSE, handed |-> 0, replied |-> FALSE,
     polls |-> 0, outcome |-> "none"]

\* no request in use
NoRequest == [MsgRequest_new(<<>>, 0, 0) EXCEPT !.owner = "none"]

\* Addr::do_send: the message is queued even if the mailbox is full
do_send(r) == [r EXCEPT !.mailbox = Append(@, "msg"), !.handed = @ + 1]

\* Addr::send and the poll of its Request: the message is queued if the
\* mailbox has room and held by the Request until it has
addr_send(r) ==
    IF Len(r.mailbox) < MailboxCapacity
    THEN [r EXCEPT !.mailbox = Append(@, "msg"), !.handed = @ + 1, !.parked = FALSE]
    ELSE [r EXCEPT !.parked = TRUE]

\* mutation: the request is not sealed by its reply
Sealed_Initial == "Initial"

\* self.set(Self::Gone): the request is sealed by its reply
Sealed == "Gone"

\* ------------------------------------------------------------------- Init

\* a document that was inserted and never scheduled
FreshDoc == [ts |-> NoTs, uuid |-> NoUuid, parent |-> NoParent, since |-> NoCursor]

\* reqs: the requests sent to schedulers (TrySchedule, renewals, ownership
\* checks) that are left
\* http: the admin requests that are left; sets: the task documents that
\* are left to insert; late: the clock units left that may pass while the
\* driver has something due
NoBudget == [time |-> 0, reqs |-> 0, errors |-> 0, uas |-> 0, events |-> 0, fails |-> 0,
             http |-> 0, sets |-> 0, late |-> 0]

\* n documents, of which documents 1..k were scheduled at time 0 to the
\* worker owner[d], with the cursor cur[d], each with its runner; the clock
\* is at t0
InitCore(n, k, owner, cur, t0, b, d0) ==
    /\ now = t0
    /\ docs = [d \in 1..n |-> IF d <= k
                               THEN [ts |-> 0, uuid |-> d, parent |-> owner[d],
                                     since |-> cur[d]]
                               ELSE FreshDoc]
    /\ runners = [d \in 1..k |-> NewRunner(TaskInfo(d, d, owner[d]), 0, cur[d])]
    /\ actors = [s \in Sched |-> {d \in 1..k : owner[d] = s}]
    /\ nextUuid = k
    /\ sop = [s \in Sched |-> IdleOp]
    /\ uaPending = [s \in Sched |-> NoUpdateAll]
    /\ drv = d0
    /\ published = {}
    /\ acquired = {}
    /\ budget = b
    /\ CollectorActor_new

\* the same, with an empty admin store, no admin request, and the server
\* parts, the broadcast and the request not in use
InitSince(n, k, owner, cur, t0, b, d0) ==
    /\ InitCore(n, k, owner, cur, t0, b, d0)
    /\ vtubers = {}
    /\ entries = {}
    /\ nextOid = 0
    /\ http = [c \in Client |-> IdleHttp]
    /\ killer = NoKiller
    /\ arb = NoArbiter
    /\ bcast = NoBroadcast
    /\ mreq = NoRequest

\* the same, no document having a cursor yet
InitWith(n, k, owner, t0, b, d0) ==
    InitSince(n, k, owner, [d \in 1..n |-> NoCursor], t0, b, d0)

\* ---------------------------------------------------------------- actions

\* the driver has a timer or a notified ScheduleAll due, or a ScheduleAll
\* in progress: a clock unit that passes now makes the driver late (drv.late
\* records it)
DriverDue ==
    \/ drv.pc # "idle"
    \/ drv.next_schedule # NoTimer /\ drv.next_schedule <= now
    \/ drv.next_balance # NoTimer /\ drv.next_balance <= now
    \/ \E k \in 1..Len(drv.pending) : drv.pending[k].at <= now

\* the wall clock advances, also while a timer is due, a pass is in
\* progress, a store call is awaited or a runner has an answer to handle
Tick ==
    /\ budget.time > 0
    /\ DriverDue => budget.late > 0
    /\ now' = now + 1
    /\ budget' = [budget EXCEPT !.time = @ - 1,
                                !.late = IF DriverDue THEN @ - 1 ELSE @]
    /\ drv' = [drv EXCEPT !.late = @ \/ DriverDue]
    /\ runners' = [i \in Rid |->
                     IF FailedRenewalPending(i)
                          /\ now + 1 > runners[i].falseAt + HeartbeatSpan
                     THEN [runners[i] EXCEPT !.late = TRUE]
                     ELSE runners[i]]
    /\ UNCHANGED <<docs, nextUuid, sop, actors, uaPending, published, acquired, collvars, miscvars>>

\* mutation: the lease uuid is not drawn afresh for every operation
ScheduleOp_new_FixedUuid(op) ==
    [op EXCEPT !.pc = FirstStep(op.mode),
               !.now_ts = timestamp(now),
               !.uuid = 1]

\* ScheduleOp::new, after since_ts was taken: the clock is read again for
\* now_ts, the lease uuid is drawn and the update document is built
ScheduleOp_new(op) ==
    [op EXCEPT !.pc = FirstStep(op.mode),
               !.now_ts = timestamp(now),
               !.uuid = nextUuid + 1]

\* Handler<TrySchedule> for a message of mode msg: AtomicResponse, one
\* ScheduleOp at a time. The handler takes SchedulerMeta::from(ctx), and
\* ScheduleOp::new(mode, T::query(), meta, max_interval) reads the clock for
\* since_ts = timestamp(SystemTime::now() - ago); pc "new" is the
\* constructor between its two readings of the clock.
StartOp(s, msg) ==
    /\ sop[s].pc = "idle"
    /\ sop' = [sop EXCEPT ![s] =
                 [IdleOp EXCEPT !.pc = "new",
                                !.msg = msg,
                                !.mode = HandlerMode(msg),
                                !.since_ts = timestamp(now - MaxIntervalMs),
                                !.actor_count = SchedulerMeta(s)]]
    /\ UNCHANGED <<now, docs, nextUuid, actors, runners, uaPending, published, acquired, collvars, miscvars>>

\* ScheduleOp::new of scheduler s reads the clock the second time, for the
\* timestamp its update writes
now_ts(s) ==
    /\ sop[s].pc = "new"
    /\ sop' = [sop EXCEPT ![s] = ScheduleOp_new(sop[s])]
    /\ nextUuid' = nextUuid + 1
    /\ UNCHANGED <<now, docs, actors, runners, uaPending, drv, published, acquired, budget, collvars, miscvars>>

\* TrySchedule::new(msg) sent to scheduler s by a sender that is not the
\* driver drv
TrySchedule(s, msg) ==
    /\ budget.reqs > 0
    /\ StartOp(s, msg)
    /\ budget' = [budget EXCEPT !.reqs = @ - 1]
    /\ UNCHANGED drv

\* history record of a lease operation of scheduler s on document d; age is
\* the time since the last heartbeat of d
LeaseRecord(kind, s, d, prev, racers) ==
    [kind |-> kind, sched |-> s, doc |-> d, uuid |-> sop[s].uuid, prev |-> prev,
     msg |-> sop[s].msg,
     age |-> IF docs[d].ts = NoTs THEN NoTs ELSE now - docs[d].ts,
     racers |-> racers]

\* the tail of Handler<TrySchedule> on Some: apply the lease update to d,
\* construct and start the runner, insert it into ctx.actors
FinishSome(s, d, kind, prev, racers) ==
    LET info == TaskInfo(d, sop[s].uuid, s)
        rid == Len(runners) + 1
    IN /\ docs' = ScheduleUpdate(d, s, sop[s])
       /\ runners' = Append(runners, NewRunner(info, now, docs[d].since))
       /\ actors' = [actors EXCEPT ![s] = ActorsInsert(s, info, rid)]
       /\ acquired' = acquired \cup {LeaseRecord(kind, s, d, prev, racers)}
       /\ sop' = [sop EXCEPT ![s] = IdleOp]

\* mutation: every scheduler that answered is kept for the next round
RoundReceive_KeepAll(s, some) ==
    LET new == Append(drv.new_addrs, s)
        rest == Tail(drv.addrs)
        d == [drv EXCEPT !.waiting = 0,
                         !.somes = IF some THEN @ + 1 ELSE @]
    IN IF rest # <<>>
       THEN [d EXCEPT !.addrs = rest, !.new_addrs = new]
       ELSE [d EXCEPT !.addrs = new, !.new_addrs = <<>>]

\* schedule_one_round after `resp` of scheduler s arrived: keep s for the
\* next round if resp is Ok(Some(_)); the while loop of ScheduleAll goes on
\* with the next round until no scheduler is left
RoundReceive(s, some) ==
    LET new == IF some THEN Append(drv.new_addrs, s) ELSE drv.new_addrs
        rest == Tail(drv.addrs)
        d == [drv EXCEPT !.waiting = 0,
                         !.somes = IF some THEN @ + 1 ELSE @]
    IN IF rest # <<>>
       THEN [d EXCEPT !.addrs = rest, !.new_addrs = new]
       ELSE IF new # <<>>
            THEN [d EXCEPT !.addrs = new, !.new_addrs = <<>>]
            ELSE [d EXCEPT !.pc = "idle", !.addrs = <<>>, !.new_addrs = <<>>,
                           !.runs = @ + 1]

\* the driver after a step of the ScheduleOp of s: if the driver sent the
\* TrySchedule and the handler returned, the response arrives
DriverObserve(s, idle, some) ==
    IF drv.waiting = s /\ idle THEN RoundReceive(s, some) ELSE drv

\* the ScheduleOps of other schedulers that are about to run do_acquire and
\* whose filter matches document d now
AcquireRacers(s, d) ==
    {sop[o].uuid : o \in {x \in Sched \ {s} :
                             sop[x].pc = "acquire" /\ Outdated(d, sop[x].since_ts)}}

\* ScheduleOp::do_acquire: find_one_and_update on an outdated document
do_acquire(s) ==
    /\ sop[s].pc = "acquire"
    /\ IF \E d \in Docs : Outdated(d, sop[s].since_ts)
       THEN /\ \E d \in Docs :
                  /\ Outdated(d, sop[s].since_ts)
                  /\ FinishSome(s, d, "takeover", docs[d].uuid, AcquireRacers(s, d))
            /\ drv' = DriverObserve(s, TRUE, TRUE)
       ELSE /\ IF sop[s].mode = "OutdatedOnly"
               THEN /\ sop' = [sop EXCEPT ![s] = IdleOp]
                    /\ drv' = DriverObserve(s, TRUE, FALSE)
               ELSE /\ sop' = [sop EXCEPT ![s].pc = "count"]
                    /\ UNCHANGED drv
            /\ UNCHANGED <<docs, actors, runners, acquired>>
    /\ UNCHANGED <<now, nextUuid, uaPending, published, budget, collvars, miscvars>>

\* the set endpoint of a source: insert_one of a task document, which was
\* never scheduled
set ==
    /\ budget.sets > 0
    /\ docs' = Append(docs, FreshDoc)
    /\ budget' = [budget EXCEPT !.sets = @ - 1]
    /\ UNCHANGED <<now, nextUuid, sop, actors, runners, uaPending, drv, published, acquired, collvars, miscvars>>

\* do_schedule_once, first store call: GetAllTasksCount
do_schedule_once_count(s) ==
    /\ sop[s].pc = "count"
    /\ sop' = [sop EXCEPT ![s].pc = "workers", ![s].entries_count = GetAllTasksCount]
    /\ UNCHANGED <<now, docs, nextUuid, actors, runners, uaPending, drv, published, acquired, budget, collvars, miscvars>>

\* allowed entries per worker is [expected, expected+1]
Expected(entries_count, workers_count) == entries_count \div (workers_count + 1)

Threshold(self_count, expected) ==
    IF self_count < expected THEN expected ELSE expected + 1

\* mutation: every peer is a candidate
Victims_AnyPeer(self_count, entries_count, workers) == workers

\* the peers do_schedule_once may choose its victim from
Victims(self_count, entries_count, workers) ==
    LET expected == Expected(entries_count, Cardinality(workers))
        threshold == Threshold(self_count, expected)
    IN IF self_count <= expected
       THEN {w \in workers : w.count > threshold}
       ELSE {}

\* do_schedule_once, second store call: GetWorkerInfoOp, then the choice of
\* the victim worker (rand::thread_rng)
do_schedule_once_workers(s) ==
    /\ sop[s].pc = "workers"
    /\ LET workers == GetWorkerInfoOp(sop[s].since_ts, s)
           self_count == sop[s].actor_count
           expected == Expected(sop[s].entries_count, Cardinality(workers))
           victims == Victims(self_count, sop[s].entries_count, workers)
       IN IF victims = {}
          THEN /\ sop' = [sop EXCEPT ![s] = IdleOp]         \* ScheduleResult::None
               /\ drv' = DriverObserve(s, TRUE, FALSE)
          ELSE /\ \E w \in victims :
                     sop' = [sop EXCEPT ![s].pc = "tasks",
                                        ![s].threshold = Threshold(self_count, expected),
                                        ![s].victim = w.id]
               /\ UNCHANGED drv
    /\ UNCHANGED <<now, docs, nextUuid, actors, runners, uaPending, published, acquired, budget, collvars, miscvars>>

\* mutation: the victim never has enough tasks
Insufficient_Always(tasks, threshold) == TRUE

\* the target worker has insufficient tasks, indicating a steal conflict
Insufficient(tasks, threshold) == ~(Cardinality(tasks) > threshold)

\* do_schedule_once, third store call: GetTasksOnWorkerOp, then the choice of
\* the victim task
do_schedule_once_tasks(s) ==
    /\ sop[s].pc = "tasks"
    /\ LET tasks == GetTasksOnWorkerOp(sop[s].since_ts, sop[s].victim)
       IN IF ~Insufficient(tasks, sop[s].threshold)
          THEN \E t \in tasks :
                  sop' = [sop EXCEPT ![s].pc = "cas", ![s].victim_task = t]
          ELSE sop' = [sop EXCEPT ![s].pc = "count",        \* ScheduleResult::Conflict
                                  ![s].victim = NoParent, ![s].threshold = 0]
    /\ UNCHANGED <<now, docs, nextUuid, actors, runners, uaPending, drv, published, acquired, budget, collvars, miscvars>>

\* mutation: the steal matches on _id alone
StealMatches_DocOnly(t) == t.doc \in Docs

\* the filter of the steal: to_document(victim_task) = {_id, uuid, parent_uuid}
StealMatches(t) == CheckOwnershipOp(t)

\* the ScheduleOps of other schedulers about to run the steal update on t
StealRacers(s, t) ==
    {sop[o].uuid : o \in {x \in Sched \ {s} :
                             sop[x].pc = "cas" /\ sop[x].victim_task = t}}

\* do_schedule_once, fourth store call: find_one_and_update on the victim task
do_schedule_once_cas(s) ==
    /\ sop[s].pc = "cas"
    /\ LET t == sop[s].victim_task
       IN IF StealMatches(t)
          THEN /\ FinishSome(s, t.doc, "steal", t.uuid, StealRacers(s, t))
               /\ drv' = DriverObserve(s, TRUE, TRUE)
          ELSE /\ sop' = [sop EXCEPT ![s].pc = "count",      \* ScheduleResult::Conflict
                                     ![s].victim_task = NoInfo,
                                     ![s].victim = NoParent,
                                     ![s].threshold = 0]
               /\ acquired' = acquired \cup {LeaseRecord("conflict", s, t.doc, t.uuid, {})}
               /\ UNCHANGED <<docs, actors, runners, drv>>
    /\ UNCHANGED <<now, nextUuid, uaPending, published, budget, collvars, miscvars>>

\* ---------------------------------------------------------- schedule driver

\* mutation: the delay is drawn from a range twice as wide
JitterRange_Double == 0..(2 * MaxJitter)

\* thread_rng().gen_range(0..1000) milliseconds, in clock units
JitterRange == 0..MaxJitter

\* a ScheduleAll(mode) message of the driver, due at clock value t
ScheduleAllMsg(mode, t) == [at |-> t, mode |-> mode]

\* run_interval(schedule_interval):
\* notify_later(ScheduleAll(OutdatedOnly), delay)
schedule_interval_tick ==
    /\ drv.next_schedule # NoTimer
    /\ drv.next_schedule <= now
    /\ \E delay \in JitterRange :
          drv' = [drv EXCEPT !.next_schedule = @ + ScheduleInterval,
                             !.pending = Append(@, ScheduleAllMsg("OutdatedOnly", now + delay))]
    /\ UNCHANGED <<now, docs, nextUuid, sop, actors, runners, uaPending, published, acquired, budget, collvars, miscvars>>

\* mutation: the first firing is not skipped
SkipOnce_Never(d) == FALSE

\* the closure of the balance interval: if skip_once
SkipOnce(d) == d.skip_once

\* run_interval(balance_interval): skipped once, then
\* notify_later(ScheduleAll(StealOnly), delay)
balance_interval_tick ==
    /\ drv.next_balance # NoTimer
    /\ drv.next_balance <= now
    /\ IF SkipOnce(drv)
       THEN drv' = [drv EXCEPT !.next_balance = @ + BalanceInterval,
                               !.skip_once = FALSE]
       ELSE \E delay \in JitterRange :
               drv' = [drv EXCEPT !.next_balance = @ + BalanceInterval,
                                  !.pending = Append(@, ScheduleAllMsg("StealOnly", now + delay))]
    /\ UNCHANGED <<now, docs, nextUuid, sop, actors, runners, uaPending, published, acquired, budget, collvars, miscvars>>

\* Handler<ScheduleAll>: AtomicResponse; addrs = self.addrs.clone(), then
\* rounds while addrs is not empty
ScheduleAll(k) ==
    /\ drv.pc = "idle"
    /\ k \in 1..Len(drv.pending)
    /\ drv.pending[k].at <= now
    /\ LET rest == SubSeq(drv.pending, 1, k - 1) \o SubSeq(drv.pending, k + 1, Len(drv.pending))
       IN drv' = IF drv.registered = <<>>
                 THEN [drv EXCEPT !.pending = rest, !.runs = @ + 1, !.somes = 0,
                                  !.startBalanced = FALSE]
                 ELSE [drv EXCEPT !.pending = rest, !.pc = "round",
                                  !.mode = drv.pending[k].mode,
                                  !.addrs = drv.registered, !.new_addrs = <<>>,
                                  !.somes = 0, !.startBalanced = Balanced]
    /\ UNCHANGED <<now, docs, nextUuid, sop, actors, runners, uaPending, published, acquired, budget, collvars, miscvars>>

\* Handler<RegisterScheduler>: self.addrs.push(msg.0). drv.registering holds
\* the messages sent by the started() of the ScheduleActors that the driver
\* has not handled yet; it handles one between two passes (the handler of
\* ScheduleAll is an AtomicResponse).
Handler_RegisterScheduler(s) ==
    /\ drv.pc = "idle"
    /\ s \in drv.registering
    /\ drv' = [drv EXCEPT !.registered = Append(@, s), !.registering = @ \ {s}]
    /\ UNCHANGED <<now, docs, nextUuid, sop, actors, runners, uaPending, published, acquired, budget, collvars, miscvars>>

\* schedule_one_round: addr.send(TrySchedule::new(mode)) to the next
\* scheduler of the round, whose handler starts its ScheduleOp
schedule_one_round(s) ==
    /\ drv.pc = "round"
    /\ drv.waiting = 0
    /\ drv.addrs # <<>>
    /\ s = Head(drv.addrs)
    /\ StartOp(s, drv.mode)
    /\ drv' = [drv EXCEPT !.waiting = s]
    /\ UNCHANGED budget

\* ------------------------------------------------------------ task runner

\* mutation: the runner keeps running
Stopped_Noop(r) == r

\* ctx.stop() of a runner: the actor stops, its pending futures are dropped
Stopped(r) == [r EXCEPT !.alive = FALSE]

\* run_interval(max_interval / 2) of a runner (DebugActor::started): send
\* UpdateEntry::empty_payload(info) to the scheduler, whether or not an
\* earlier renewal has been answered. The interval fires when the clock
\* has reached the half unit in which it is due, or later.
RunnerHeartbeat(i) ==
    /\ runners[i].alive
    /\ budget.reqs > 0
    /\ \E h \in IntervalDue(runners[i]) :
          /\ h <= 2 * now + 1
          /\ runners' = [runners EXCEPT ![i].hbDue = h + HeartbeatInterval,
                                        ![i].hbFired = TRUE,
                                        ![i].reqs = Append(@, UpdateEntry_new("hb", 0, NoBody,
                                                                              runners[i].since))]
    /\ budget' = [budget EXCEPT !.reqs = @ - 1]
    /\ UNCHANGED <<now, docs, nextUuid, sop, actors, uaPending, drv, published, acquired, collvars, miscvars>>

\* an upstream item arrives: ctx.notify(ToCollector)
RunnerItem(i) ==
    /\ runners[i].alive
    /\ runners[i].upstream # "failed"
    /\ budget.reqs > 0
    /\ runners' = [runners EXCEPT ![i].notified = Append(@, runners[i].since)]
    /\ budget' = [budget EXCEPT !.reqs = @ - 1]
    /\ UNCHANGED <<now, docs, nextUuid, sop, actors, uaPending, drv, published, acquired, collvars, miscvars>>

\* impl_to_collector_handler, up to the await: the runner handles the next
\* ToCollector of its mailbox and sends UpdateEntry::empty_payload(info) to
\* the scheduler; item numbers the messages handled
Handler_ToCollector(i) ==
    /\ runners[i].alive
    /\ runners[i].notified # <<>>
    /\ runners' = [runners EXCEPT ![i].item = @ + 1,
                                  ![i].notified = Tail(@),
                                  ![i].reqs = Append(@, UpdateEntry_new("tc", runners[i].item + 1,
                                                          NoBody, Head(runners[i].notified)))]
    /\ UNCHANGED <<now, docs, nextUuid, sop, actors, uaPending, drv, published, acquired, budget, collvars, miscvars>>

\* Handler<UpdateEntry> of the scheduler, for a request of runner i: "hb" is
\* the UpdateEntry::empty_payload of its periodic renewal, "tc" that of a
\* ToCollector handler, "cu" the UpdateEntry::new with the runner's cursor.
\* AtomicResponse: not while a TrySchedule or another UpdateEntry is
\* executing; the requests of one runner are handled in the order they
\* were sent. UpdateEntryOp::execute_impl takes
\* timestamp(SystemTime::now()) and sends its update_one; the scheduler
\* waits for the result.
UpdateEntry(s, i, which) ==
    /\ runners[i].info.parent = s
    /\ sop[s].pc = "idle"
    /\ SentRequests(runners[i]) # {}
    /\ runners[i].reqs[NextSent(runners[i])].which = which
    /\ LET body == runners[i].reqs[NextSent(runners[i])].body
       IN sop' = [sop EXCEPT ![s] =
                    [IdleOp EXCEPT !.pc = "update",
                                   !.ue = [NoUpdate EXCEPT !.rid = i, !.which = which,
                                                           !.body = body,
                                                           !.ts = timestamp(now)]]]
    /\ UNCHANGED <<now, docs, nextUuid, actors, runners, uaPending, drv, published, acquired, budget, collvars, miscvars>>

\* the store applies the update_one of the UpdateEntryOp scheduler s waits
\* for (ok), or the call fails and nothing is written; matched records
\* whether the lease was the current one
UpdateEntryApply(s, ok) ==
    /\ sop[s].pc = "update"
    /\ ok \/ budget.errors > 0
    /\ LET ue == sop[s].ue
           info == runners[ue.rid].info
       IN /\ docs' = IF ok THEN UpdateEntryOp(info, ue.body, ue.ts) ELSE docs
          /\ sop' = [sop EXCEPT ![s].pc = "updated",
                                ![s].ue.res = UpdateEntryResult(ok, info, ue.body, ue.ts),
                                ![s].ue.matched = LeaseHeld(info)]
    /\ budget' = IF ok THEN budget ELSE [budget EXCEPT !.errors = @ - 1]
    /\ UNCHANGED <<now, nextUuid, actors, runners, uaPending, drv, published, acquired, collvars, miscvars>>

\* Handler<UpdateEntry>, after the await: the result is sent to the runner
\* and the scheduler handles its next message. The reply of a request whose
\* sender has stopped is dropped.
UpdateEntryReply(s) ==
    /\ sop[s].pc = "updated"
    /\ LET ue == sop[s].ue
           i == ue.rid
           live == runners[i].alive
           matched == live /\ ue.matched
           failed == live /\ ue.which \in {"hb", "cu"} /\ ue.res = "false"
       IN runners' = [runners EXCEPT ![i].reqs[NextSent(runners[i])].st =
                                          IF live THEN ue.res ELSE "dropped",
                                     ![i].reqs[NextSent(runners[i])].matched = matched,
                                     ![i].falseAt = IF failed /\ @ = NoTs THEN now ELSE @]
    /\ sop' = [sop EXCEPT ![s] = IdleOp]
    /\ UNCHANGED <<now, docs, nextUuid, actors, uaPending, drv, published, acquired, budget, collvars, miscvars>>

\* the runner receives the reply of its periodic renewal: ctx.stop() unless
\* the renewal succeeded
RunnerHeartbeatReply(i) ==
    /\ runners[i].alive
    /\ ReplyArrived(runners[i], "hb")
    /\ runners' = [runners EXCEPT ![i] =
                     IF HoldingOwnership(runners[i].reqs[1].st)
                     THEN [@ EXCEPT !.reqs = Tail(@)]
                     ELSE Stopped([@ EXCEPT !.reqs = Tail(@), !.lostSeen = TRUE])]
    /\ UNCHANGED <<now, docs, nextUuid, sop, actors, uaPending, drv, published, acquired, budget, collvars, miscvars>>

\* Publish sent to the collector by runner i for the item of its ownership
\* check c
Publish(i, c) ==
    published \cup {[rid |-> i, item |-> c.item,
                     doc |-> runners[i].info.doc, cursor |-> c.cursor,
                     reply |-> c.st,
                     checked |-> c.matched,
                     held |-> LeaseHeld(runners[i].info),
                     afterLoss |-> runners[i].lostSeen]}

\* impl_to_collector_handler: the reply of the ownership check arrives;
\* publish if holding_ownership, else ctx.stop()
ToCollector(i) ==
    /\ runners[i].alive
    /\ ReplyArrived(runners[i], "tc")
    /\ IF HoldingOwnership(runners[i].reqs[1].st)
       THEN /\ published' = Publish(i, runners[i].reqs[1])
            /\ runners' = [runners EXCEPT ![i].reqs = Tail(@)]
       ELSE /\ runners' = [runners EXCEPT ![i] = Stopped([@ EXCEPT !.reqs[1].st = "failed"])]
            /\ UNCHANGED published
    /\ UNCHANGED <<now, docs, nextUuid, sop, actors, uaPending, drv, acquired, budget, collvars, miscvars>>

\* upstream I/O error (stream error, fetch error): ctx.stop()
RunnerError(i) ==
    /\ runners[i].alive
    /\ budget.errors > 0
    /\ runners' = [runners EXCEPT ![i] = Stopped(@)]
    /\ budget' = [budget EXCEPT !.errors = @ - 1]
    /\ UNCHANGED <<now, docs, nextUuid, sop, actors, uaPending, drv, published, acquired, collvars, miscvars>>

\* ------------------------------------------------------------ the sources

\* BililiveActor::started, the future spawned for connect_with_retry: the
\* stream is added to the actor, or the failure is logged
RunnerConnect(i, ok) ==
    /\ runners[i].alive
    /\ runners[i].upstream = "starting"
    /\ ok \/ budget.errors > 0
    /\ runners' = [runners EXCEPT ![i].upstream = IF ok THEN "streaming" ELSE "failed"]
    /\ budget' = IF ok THEN budget ELSE [budget EXCEPT !.errors = @ - 1]
    /\ UNCHANGED <<now, docs, nextUuid, sop, actors, uaPending, drv, published, acquired, collvars, miscvars>>

\* TwitterActor::started, the run_interval(max_interval / 2) closure: the
\* interval fires, reads act.entry.data and spawns fetch_tweets from that
\* cursor, whether or not an earlier fetch is still awaited
TwitterFetch(i) ==
    /\ runners[i].alive
    /\ budget.reqs > 0
    /\ \E h \in IntervalDue(runners[i]) :
          /\ h <= 2 * now + 1
          /\ runners' = [runners EXCEPT ![i].hbDue = h + HeartbeatInterval,
                                        ![i].hbFired = TRUE,
                                        ![i].fetching = Append(@, runners[i].since)]
    /\ budget' = [budget EXCEPT !.reqs = @ - 1]
    /\ UNCHANGED <<now, docs, nextUuid, sop, actors, uaPending, drv, published, acquired, collvars, miscvars>>

\* new_since of fetch_tweets: the id of the newest tweet after the cursor the
\* fetch started from, or that cursor if there is none
new_since(since, res) == IF res = "new" THEN since + 1 ELSE since

\* TwitterActor::started, the then of the spawned future: the k-th awaited
\* fetch_tweets returned res. On an error the runner stops. Otherwise, if
\* there are tweets ("new"), ToCollector is notified; the cursor of the
\* entry is set to new_since, and UpdateEntry::new(info, TwitterSince {
\* since }) is sent to the scheduler.
TwitterFetched(i, k, res) ==
    /\ runners[i].alive
    /\ k \in 1..Len(runners[i].fetching)
    /\ res = "err" => budget.errors > 0
    /\ res = "new" => runners[i].fetching[k] < MaxCursor
    /\ LET since == new_since(runners[i].fetching[k], res)
           rest == RemoveAt(runners[i].fetching, k)
           cu == UpdateEntry_new("cu", 0, since, since)
       IN runners' = [runners EXCEPT ![i] =
             CASE res = "err" -> Stopped([@ EXCEPT !.fetching = rest])
               [] res = "new" -> [@ EXCEPT !.fetching = rest, !.since = since,
                                           !.notified = Append(@, since),
                                           !.reqs = Append(@, cu)]
               [] OTHER -> [@ EXCEPT !.fetching = rest, !.since = since,
                                     !.reqs = Append(@, cu)]]
    /\ budget' = [budget EXCEPT !.errors = IF res = "err" THEN @ - 1 ELSE @]
    /\ UNCHANGED <<now, docs, nextUuid, sop, actors, uaPending, drv, published, acquired, collvars, miscvars>>

\* TwitterActor::started, the last map of the spawned future: the reply of
\* the cursor update arrives; ctx.stop() unless the update succeeded
TwitterReply(i) ==
    /\ runners[i].alive
    /\ ReplyArrived(runners[i], "cu")
    /\ runners' = [runners EXCEPT ![i] =
                     IF HoldingOwnership(runners[i].reqs[1].st)
                     THEN [@ EXCEPT !.reqs = Tail(@)]
                     ELSE Stopped([@ EXCEPT !.reqs = Tail(@), !.lostSeen = TRUE])]
    /\ UNCHANGED <<now, docs, nextUuid, sop, actors, uaPending, drv, published, acquired, budget, collvars, miscvars>>

\* ---------------------------------------------------- scheduler housekeeping

\* mutation: no handle is connected
ConnectedHandles_None(s) == {}

\* the handles of scheduler s whose addr.connected() holds
ConnectedHandles(s) == {i \in actors[s] : runners[i].alive}

\* Handler<TriggerGC>: remove the handles whose runner is not connected
TriggerGC(s) ==
    /\ sop[s].pc = "idle"
    /\ \E i \in actors[s] : ~runners[i].alive
    /\ actors' = [actors EXCEPT ![s] = ConnectedHandles(s)]
    /\ UNCHANGED <<now, docs, nextUuid, sop, runners, uaPending, drv, published, acquired, budget, collvars, miscvars>>

\* Handler<UpdateAll>: one future per entry of ctx.actors, joined and spawned
\* on the scheduler. uaPending[s] holds the futures that have not finished:
\* ua numbers the UpdateAll, st is "new" before the first poll, "sent" while
\* the update_one is awaited, then the awaited result; live (the runner was
\* alive when the handler ran) and matched (the filter of the update_one
\* matched) are recorded for the properties.
UpdateAll(s, evict) ==
    /\ sop[s].pc = "idle"
    /\ actors[s] # {}
    /\ budget.uas > 0
    /\ uaPending' = [uaPending EXCEPT ![s] = @ \cup
                       {[ua |-> budget.uas, i |-> i, evict |-> evict, st |-> "new",
                         ts |-> NoTs, matched |-> FALSE, live |-> runners[i].alive]
                          : i \in actors[s]}]
    /\ budget' = [budget EXCEPT !.uas = @ - 1]
    /\ UNCHANGED <<now, docs, nextUuid, sop, actors, runners, drv, published, acquired, collvars, miscvars>>

\* the first poll of the joined futures of UpdateAll number ua: every
\* UpdateEntryOp::execute_impl takes timestamp(SystemTime::now()) and sends
\* its update_one. An actor polls its spawned futures only while no
\* AtomicResponse is waiting (ContextFut::poll returns at a pending wait).
UpdateAllPoll(s, ua) ==
    /\ sop[s].pc = "idle"
    /\ \E e \in uaPending[s] : e.ua = ua /\ e.st = "new"
    /\ uaPending' = [uaPending EXCEPT ![s] =
                       {IF e.ua = ua /\ e.st = "new"
                        THEN [e EXCEPT !.st = "sent", !.ts = timestamp(now)]
                        ELSE e : e \in @}]
    /\ UNCHANGED <<now, docs, nextUuid, sop, actors, runners, drv, published, acquired, budget, collvars, miscvars>>

\* the store applies the update_one of future e of UpdateAll (ok), or the
\* call fails
UpdateAllEntry(s, e, ok) ==
    /\ e \in uaPending[s]
    /\ e.st = "sent"
    /\ ok \/ budget.errors > 0
    /\ LET info == runners[e.i].info
           res == UpdateEntryResult(ok, info, NoBody, e.ts)
       IN /\ docs' = IF ok THEN UpdateEntryOp(info, NoBody, e.ts) ELSE docs
          /\ uaPending' = [uaPending EXCEPT ![s] = (@ \ {e}) \cup
                             {[e EXCEPT !.st = res, !.ts = NoTs,
                                        !.matched = ok /\ UpdateEntryMatched(info)]}]
    /\ budget' = IF ok THEN budget ELSE [budget EXCEPT !.errors = @ - 1]
    /\ UNCHANGED <<now, nextUuid, sop, actors, runners, drv, published, acquired, collvars, miscvars>>

\* future e of UpdateAll after its await: addr.stop() if the heartbeat did
\* not succeed (unwrap_or(false)) and evict is set. The stop is a signal to
\* the runner, which handles it later (RunnerStop).
UpdateAllReply(s, e) ==
    /\ sop[s].pc = "idle"
    /\ e \in uaPending[s]
    /\ e.st \in {"true", "false", "err"}
    /\ runners' = IF ~HoldingOwnership(e.st) /\ e.evict
                  THEN [runners EXCEPT ![e.i].stopping = TRUE]
                  ELSE runners
    /\ uaPending' = [uaPending EXCEPT ![s] = @ \ {e}]
    /\ UNCHANGED <<now, docs, nextUuid, sop, actors, drv, published, acquired, budget, collvars, miscvars>>

\* runner i handles the stop signal of its address: the actor stops
RunnerStop(i) ==
    /\ runners[i].alive
    /\ runners[i].stopping
    /\ runners' = [runners EXCEPT ![i] = Stopped(@)]
    /\ UNCHANGED <<now, docs, nextUuid, sop, actors, uaPending, drv, published, acquired, budget, collvars, miscvars>>

\* --------------------------------------------------------------- collector

schedvars == <<docs, nextUuid, sop, actors, runners, uaPending, drv, published, acquired>>

\* Handler<Publish>, up to the await: a runner sent its next event, numbered
\* in the order of production, and the lookup of expand() is started
Handler_Publish ==
    /\ budget.events > 0
    /\ pubs' = pubs \cup {chist.sent + 1}
    /\ chist' = [chist EXCEPT !.sent = @ + 1]
    /\ budget' = [budget EXCEPT !.events = @ - 1]
    /\ UNCHANGED <<now, schedvars, miscvars, collectors, wakes, delivered>>

\* Handler<Publish>, after the await: the lookup of event e returned. If
\* the root was found the event is pushed to the queue of every destination,
\* with a Wake where WakeOnPublish holds; otherwise the event is discarded.
Publish_expand(e, found) ==
    /\ e \in pubs
    /\ found \/ budget.fails > 0
    /\ pubs' = pubs \ {e}
    /\ IF found
       THEN /\ collectors' = [d \in Dest |->
                                [collectors[d] EXCEPT !.queue = push_back(@, e)]]
            /\ wakes' = [d \in Dest |->
                           IF WakeOnPublish(collectors[d])
                           THEN Notify(wakes[d], now) ELSE wakes[d]]
            /\ chist' = [chist EXCEPT
                 !.dropped = [d \in Dest |->
                    IF Len(collectors[d].queue) >= RingCapacity
                    THEN chist.dropped[d] \cup {Head(collectors[d].queue)}
                    ELSE chist.dropped[d]],
                 !.failed = [d \in Dest |->
                    IF /\ Len(collectors[d].queue) >= RingCapacity
                       /\ Head(collectors[d].queue) = chist.failed[d].event
                    THEN [chist.failed[d] EXCEPT !.overflowed = TRUE]
                    ELSE chist.failed[d]]]
            /\ UNCHANGED budget
       ELSE /\ chist' = [chist EXCEPT !.lost = @ \cup {e}]
            /\ budget' = [budget EXCEPT !.fails = @ - 1]
            /\ UNCHANGED <<collectors, wakes>>
    /\ UNCHANGED <<now, schedvars, miscvars, delivered>>

\* Handler<Wake> is an AtomicResponse: from its start to the end of its
\* future the actor handles no other message and polls no other future, so
\* each of its branches is one step. A pending Wake of destination d that is
\* due is handled.
WakeDue(d) == wakes[d] # <<>> /\ Head(wakes[d]) <= now

\* Handler<Wake>, Branch::Send: pop the front event and send it to the
\* recipient, which answers succ; with an empty queue, a warning
Wake_Send(d, succ) ==
    /\ WakeDue(d)
    /\ Branch(collectors[d], now) = "Send"
    /\ LET c == collectors[d]
           rest == Tail(wakes[d])
           event == Head(c.queue)
           queue == pop_front(c.queue)
       IN IF c.queue = <<>>
          THEN /\ succ
               /\ wakes' = [wakes EXCEPT ![d] = rest]
               /\ UNCHANGED <<collectors, delivered, chist, budget>>
          ELSE /\ succ \/ budget.fails > 0
               /\ chist' = [chist EXCEPT
                    !.popped[d] = TRUE,
                    !.failed[d] = IF succ THEN NoFail
                                  ELSE [event |-> event, overflowed |-> FALSE,
                                        full |-> Len(c.queue) >= RingCapacity],
                    !.resent = IF chist.failed[d].event # NoEvent
                               THEN @ \cup {[dest |-> d,
                                             failed |-> chist.failed[d].event,
                                             overflowed |-> chist.failed[d].overflowed,
                                             first |-> event]}
                               ELSE @]
               /\ IF succ
                  THEN /\ collectors' = [collectors EXCEPT ![d].queue = queue]
                       /\ delivered' = [delivered EXCEPT ![d] = Append(@, event)]
                       /\ wakes' = [wakes EXCEPT ![d] =
                                      IF queue # <<>> THEN Notify(rest, now) ELSE rest]
                       /\ UNCHANGED budget
                  ELSE /\ collectors' = [collectors EXCEPT ![d] =
                             [state |-> "DelayedEstablish",
                              deadline |-> now + RetryDelay,
                              queue |-> push_front(queue, event)]]
                       /\ wakes' = [wakes EXCEPT ![d] = Notify(rest, now + RetryDelay)]
                       /\ budget' = [budget EXCEPT !.fails = @ - 1]
                       /\ UNCHANGED delivered
    /\ UNCHANGED <<now, schedvars, miscvars, pubs>>

\* Handler<Wake>, Branch::EstablishConnection: factory.build() returns a
\* recipient or None
Wake_EstablishConnection(d, built) ==
    /\ WakeDue(d)
    /\ Branch(collectors[d], now) = "EstablishConnection"
    /\ built \/ budget.fails > 0
    /\ LET c == collectors[d]
           rest == Tail(wakes[d])
       IN IF built
          THEN /\ collectors' = [collectors EXCEPT ![d].state = "Available"]
               /\ wakes' = [wakes EXCEPT ![d] =
                              IF c.queue # <<>> THEN Notify(rest, now) ELSE rest]
               /\ UNCHANGED budget
          ELSE /\ collectors' = [collectors EXCEPT
                                    ![d].state = "DelayedEstablish",
                                    ![d].deadline = now + RetryDelay]
               /\ wakes' = [wakes EXCEPT ![d] = Notify(rest, now + RetryDelay)]
               /\ budget' = [budget EXCEPT !.fails = @ - 1]
    /\ UNCHANGED <<now, schedvars, miscvars, pubs, delivered, chist>>

\* Handler<Wake>, Branch::EarlyWake: the Wake is scheduled again for the
\* deadline
Wake_EarlyWake(d) ==
    /\ WakeDue(d)
    /\ Branch(collectors[d], now) = "EarlyWake"
    /\ wakes' = [wakes EXCEPT ![d] = Notify(Tail(@), collectors[d].deadline)]
    /\ UNCHANGED <<now, schedvars, miscvars, budget, pubs, collectors, delivered, chist>>

\* the clock advances while a delayed Wake is not due yet
TimerAdvance ==
    /\ \E d \in Dest : \E k \in 1..Len(wakes[d]) : wakes[d][k] > now
    /\ now' = now + 1
    /\ UNCHANGED <<schedvars, budget, collvars, miscvars>>

\* ---------------------------------------------------------- admin handlers

\* what the scheduler, the collector and the server parts hold
corevars == <<now, schedvars, collvars>>

\* whether the entity and its field of the kind are in the store
Seen(name, kind) ==
    [entity |-> \E v \in vtubers : v.name = name,
     field |-> kind \in Kind /\ GetVtuberOp(name).fields[kind] # NoRef,
     target |-> "none"]

\* client c may send a request
CanRequest(c) ==
    /\ http[c].pc \in {"idle", "done"}
    /\ budget.http > 0

\* the request, numbered by the requests that were left at its arrival
Request(c, op, name, kind) ==
    [IdleHttp EXCEPT !.seq = budget.http, !.op = op, !.name = name, !.kind = kind, !.seen = Seen(name, kind)]

\* the handler returns the error: its status_code is the response
Fail(req, err) == [req EXCEPT !.pc = "done", !.status = status_code(err)]

\* the handler returns the response
Respond(req, status) == [req EXCEPT !.pc = "done", !.status = status]

\* LinkRefOp: find_one_and_update by name; $set replaces the value of
\* "fields" by the document {field: ref}, $unset removes "fields"
LinkRefOp(name, kind, ref) ==
    LET v == GetVtuberOp(name)
        linked == IF ref = NoRef THEN NoFields ELSE [NoFields EXCEPT ![kind] = ref]
    IN  IF v = NoVtuber THEN vtubers
        ELSE (vtubers \ {v}) \cup {[v EXCEPT !.fields = linked]}

\* this step is the arrival of a request at client c
Arrived(c) ==
    /\ budget'.http = budget.http - 1
    /\ http'[c].seq = budget.http

\* POST of an entity: CreateVtuberOp, the one operation on the store,
\* inserts a Vtuber with a fresh ObjectId
create(c, name) ==
    /\ CanRequest(c)
    /\ LET req == Request(c, "create", name, "none")
       IN  IF DuplicateKey(nextOid + 1)
           THEN /\ http' = [http EXCEPT ![c] = Respond(req, 409)]
                /\ UNCHANGED <<vtubers, nextOid>>
           ELSE /\ vtubers' = vtubers \cup {[id |-> nextOid + 1, name |-> name,
                                             fields |-> NoFields]}
                /\ nextOid' = nextOid + 1
                /\ http' = [http EXCEPT ![c] = Respond(req, 204)]
    /\ budget' = [budget EXCEPT !.http = @ - 1]
    /\ UNCHANGED <<entries, corevars, killer, arb, bcast, mreq>>

\* DELETE of an entity, up to the first await: GetVtuberOp
delete(c, name) ==
    /\ CanRequest(c)
    /\ LET req == Request(c, "delete", name, "none")
           v == GetVtuberOp(name)
       IN  http' = [http EXCEPT ![c] =
               IF v = NoVtuber THEN Fail(req, "MissingVtuber")
               ELSE [req EXCEPT !.pc = "delrefs",
                                !.refs = {v.fields[k] : k \in Kind} \ {NoRef}]]
    /\ budget' = [budget EXCEPT !.http = @ - 1]
    /\ UNCHANGED <<vtubers, entries, nextOid, corevars, killer, arb, bcast, mreq>>

\* DELETE of an entity: join_all of the DBRefDelOp of every field
delete_refs(c) ==
    /\ http[c].pc = "delrefs"
    /\ LET req == http[c]
           all == \A r \in req.refs : TargetExists(r)
           seen == [req.seen EXCEPT !.target = IF req.refs = {} THEN "none"
                                               ELSE IF all THEN "found" ELSE "absent"]
       IN  /\ entries' = {e \in entries : e.id \notin req.refs}
           /\ http' = [http EXCEPT ![c] =
                  IF all THEN [req EXCEPT !.pc = "drop", !.seen = seen]
                  ELSE Fail([req EXCEPT !.seen = seen], "Inconsistency")]
    /\ UNCHANGED <<vtubers, nextOid, budget, corevars, killer, arb, bcast, mreq>>

\* DELETE of an entity: DeleteVtuberOp, deleted_count > 0
delete_drop(c) ==
    /\ http[c].pc = "drop"
    /\ LET req == http[c]
           v == GetVtuberOp(req.name)
       IN  /\ vtubers' = vtubers \ {v}
           /\ http' = [http EXCEPT ![c] =
                  IF v = NoVtuber THEN Fail(req, "Inconsistency") ELSE Respond(req, 204)]
    /\ UNCHANGED <<entries, nextOid, budget, corevars, killer, arb, bcast, mreq>>

\* GET of a field, up to the first await: GetVtuberOp, fields.get(KEY)
field_get(c, name, kind) ==
    /\ CanRequest(c)
    /\ LET req == Request(c, "get", name, kind)
           v == GetVtuberOp(name)
       IN  http' = [http EXCEPT ![c] =
               IF v = NoVtuber THEN Fail(req, "MissingVtuber")
               ELSE IF v.fields[kind] = NoRef THEN Fail(req, "MissingField")
               ELSE [req EXCEPT !.pc = "get", !.refs = {v.fields[kind]}]]
    /\ budget' = [budget EXCEPT !.http = @ - 1]
    /\ UNCHANGED <<vtubers, entries, nextOid, corevars, killer, arb, bcast, mreq>>

\* GET of a field: DBRefGetOp
field_get_ref(c) ==
    /\ http[c].pc = "get"
    /\ LET req == http[c]
           found == \A r \in req.refs : TargetExists(r)
           seen == [req.seen EXCEPT !.target = IF found THEN "found" ELSE "absent"]
       IN  http' = [http EXCEPT ![c] =
               IF found THEN Respond([req EXCEPT !.seen = seen], 200)
               ELSE Fail([req EXCEPT !.seen = seen], "Inconsistency")]
    /\ UNCHANGED <<vtubers, entries, nextOid, budget, corevars, killer, arb, bcast, mreq>>

\* PUT of a field, up to the first await: from_str_e of the payload, then
\* GetVtuberOp, fields.get(KEY)
field_put(c, name, kind, malformed) ==
    /\ CanRequest(c)
    /\ LET req == [Request(c, "put", name, kind) EXCEPT !.malformed = malformed]
           v == GetVtuberOp(name)
       IN  http' = [http EXCEPT ![c] =
               IF malformed THEN Fail(req, "InvalidValue")
               ELSE IF v = NoVtuber THEN Fail(req, "MissingVtuber")
               ELSE IF v.fields[kind] = NoRef THEN [req EXCEPT !.pc = "insert"]
               ELSE [req EXCEPT !.pc = "set", !.refs = {v.fields[kind]}]]
    /\ budget' = [budget EXCEPT !.http = @ - 1]
    /\ UNCHANGED <<vtubers, entries, nextOid, corevars, killer, arb, bcast, mreq>>

\* PUT of a field that is linked: DBRefSetOp, find_one_and_replace
field_put_set(c) ==
    /\ http[c].pc = "set"
    /\ LET req == http[c]
           found == \A r \in req.refs : TargetExists(r)
           seen == [req.seen EXCEPT !.target = IF found THEN "found" ELSE "absent"]
       IN  http' = [http EXCEPT ![c] =
               IF found THEN Respond([req EXCEPT !.seen = seen], 204)
               ELSE Fail([req EXCEPT !.seen = seen], "Inconsistency")]
    /\ UNCHANGED <<vtubers, entries, nextOid, budget, corevars, killer, arb, bcast, mreq>>

\* PUT of a field that is not linked: CreateFieldOp inserts the document
field_put_insert(c) ==
    /\ http[c].pc = "insert"
    /\ entries' = entries \cup {[id |-> nextOid + 1, kind |-> http[c].kind]}
    /\ nextOid' = nextOid + 1
    /\ http' = [http EXCEPT ![c] = [@ EXCEPT !.pc = "link", !.refs = {nextOid + 1}]]
    /\ UNCHANGED <<vtubers, budget, corevars, killer, arb, bcast, mreq>>

\* PUT of a field that is not linked: LinkRefOp with the new reference
field_put_link(c) ==
    /\ http[c].pc = "link"
    /\ LET req == http[c]
       IN  /\ \E r \in req.refs : vtubers' = LinkRefOp(req.name, req.kind, r)
           /\ http' = [http EXCEPT ![c] = Respond(req, 204)]
    /\ UNCHANGED <<entries, nextOid, budget, corevars, killer, arb, bcast, mreq>>

\* DELETE of a field, up to the first await: GetVtuberOp, fields.get(KEY)
field_delete(c, name, kind) ==
    /\ CanRequest(c)
    /\ LET req == Request(c, "del", name, kind)
           v == GetVtuberOp(name)
       IN  http' = [http EXCEPT ![c] =
               IF v = NoVtuber THEN Fail(req, "MissingVtuber")
               ELSE IF v.fields[kind] = NoRef THEN Fail(req, "MissingField")
               ELSE [req EXCEPT !.pc = "del", !.refs = {v.fields[kind]}]]
    /\ budget' = [budget EXCEPT !.http = @ - 1]
    /\ UNCHANGED <<vtubers, entries, nextOid, corevars, killer, arb, bcast, mreq>>

\* DELETE of a field: DBRefDelOp, deleted_count > 0
field_delete_ref(c) ==
    /\ http[c].pc = "del"
    /\ LET req == http[c]
           found == \A r \in req.refs : TargetExists(r)
           seen == [req.seen EXCEPT !.target = IF found THEN "found" ELSE "absent"]
       IN  /\ entries' = {e \in entries : e.id \notin req.refs}
           /\ http' = [http EXCEPT ![c] =
                  IF found THEN [req EXCEPT !.pc = "unlink", !.seen = seen]
                  ELSE Fail([req EXCEPT !.seen = seen], "Inconsistency")]
    /\ UNCHANGED <<vtubers, nextOid, budget, corevars, killer, arb, bcast, mreq>>

\* DELETE of a field: LinkRefOp with None
field_delete_unlink(c) ==
    /\ http[c].pc = "unlink"
    /\ LET req == http[c]
       IN  /\ vtubers' = LinkRefOp(req.name, req.kind, NoRef)
           /\ http' = [http EXCEPT ![c] = Respond(req, 204)]
    /\ UNCHANGED <<entries, nextOid, budget, corevars, killer, arb, bcast, mreq>>

\* ------------------------------------------------------------- the killer

\* what is not the killer
nokillervars == <<corevars, budget, mgrvars, arb, bcast, mreq>>

\* the system and the process run: messages are handled, work is done,
\* also while a stop of the system has been requested and not yet performed
Running == killer.system # "stopped" /\ killer.process = "running"

\* System::current().stop(): the stop is requested from the controller of
\* the system and the call returns; the system goes on running what is ready
\* until its controller has handled the request
System_stop(k) == [k EXCEPT !.system = IF @ = "running" THEN "stopping" ELSE @]

\* Drop of an actor declared stop-on-panic: KillerActor::kill(true) if the
\* thread is panicking, nothing else
Drop(panicking) ==
    /\ Running
    /\ killer.drops > 0
    /\ killer' = [killer EXCEPT !.drops = @ - 1,
                                !.mailbox = IF panicking THEN Append(@, Kill(TRUE)) ELSE @]
    /\ UNCHANGED nokillervars

\* Server::run in HTTP mode, after HttpServer::run started the workers:
\* the handle of the server is sent to the killer
Server_run_register ==
    /\ Running
    /\ killer.srv = "started"
    /\ killer' = [killer EXCEPT !.srv = "running",
                                !.mailbox = Append(@, RegisterHttpServer)]
    /\ UNCHANGED nokillervars

\* Handler<RegisterHttpServer>
Handler_RegisterHttpServer ==
    /\ Running
    /\ killer.mailbox # <<>>
    /\ Head(killer.mailbox).type = "RegisterHttpServer"
    /\ killer' = [killer EXCEPT !.registered = TRUE, !.mailbox = Tail(@)]
    /\ UNCHANGED nokillervars

\* Handler<Kill>: the server is stopped, not awaited, or the system is
Handler_Kill ==
    /\ Running
    /\ killer.mailbox # <<>>
    /\ Head(killer.mailbox).type = "Kill"
    /\ LET msg == Head(killer.mailbox)
           k == [killer EXCEPT !.mailbox = Tail(@)]
       IN  killer' =
               IF killer.registered
               THEN [k EXCEPT !.srv = IF @ = "running" THEN "stopping" ELSE @,
                              !.stop_graceful = msg.graceful,
                              !.killed = IF @ = "no" THEN "server" ELSE @]
               ELSE [System_stop(k) EXCEPT !.killed = "system"]
    /\ UNCHANGED nokillervars

\* the server that was asked to stop has stopped: main, which awaits the
\* server's future, returns
ServerStopped ==
    /\ killer.process = "running"
    /\ killer.srv = "stopping"
    /\ killer' = [killer EXCEPT !.srv = "stopped", !.process = "exited"]
    /\ UNCHANGED nokillervars

\* a future spawned on the system is polled for the first time: it awaits
\* its sleep
WorkSleep ==
    /\ Running
    /\ killer.work > 0
    /\ killer' = [killer EXCEPT !.work = @ - 1, !.asleep = @ + 1]
    /\ UNCHANGED nokillervars

\* the sleep of a spawned future is over and the future runs to completion:
\* it reports that it ran (late counts the reports made after a kill stopped
\* the system) and ends with System::current().stop()
WorkDone ==
    /\ Running
    /\ killer.asleep > 0
    /\ killer' = System_stop([killer EXCEPT !.asleep = @ - 1,
                                !.late = IF killer.killed = "system" THEN @ + 1 ELSE @])
    /\ UNCHANGED nokillervars

\* the controller of the system handles the requested stop: sys.run()
\* returns and what was scheduled on the system is dropped
System_run ==
    /\ killer.system = "stopping"
    /\ killer' = [killer EXCEPT !.system = "stopped"]
    /\ UNCHANGED nokillervars

\* ------------------------------------------------------- the server future

\* what is not the no-HTTP server
noarbvars == <<corevars, budget, mgrvars, killer, bcast, mreq>>

\* WatchdogActor::stopped: the worker's arbiter stopped, the signal is sent
WatchdogActor_stopped(w) ==
    /\ w \in DOMAIN arb.wd
    /\ arb.wd[w] = "running"
    /\ arb' = [arb EXCEPT !.wd[w] = "sent", !.queue = @ + 1]
    /\ UNCHANGED noarbvars

\* the watchdog, or the closure that was to start it, is dropped with its
\* sender
WatchdogActor_drop(w) ==
    /\ w \in DOMAIN arb.wd
    /\ arb.wd[w] \in {"running", "sent"}
    /\ arb' = [arb EXCEPT !.wd[w] = IF @ = "sent" THEN "sentdropped" ELSE "dropped"]
    /\ UNCHANGED noarbvars

\* the server future is polled
ArbiterHandler_poll_step ==
    /\ arb.result # "ready"
    /\ arb.polls > 0
    /\ LET r == ArbiterHandler_poll(arb.stop_count, arb.queue, Senders(arb))
       IN  arb' = [arb EXCEPT !.result = r.result, !.stop_count = r.stop_count,
                              !.queue = r.queue, !.polls = @ - 1]
    /\ UNCHANGED noarbvars

\* ------------------------------------------------------------ the broadcast

\* what is not the broadcast
nobcastvars == <<corevars, budget, mgrvars, killer, arb, mreq>>

\* InstanceContext::send: a request for GetId and one for the message per
\* worker; Error::Context if a worker has no address of the target. The
\* requests are not sent yet.
InstanceContext_send ==
    /\ bcast.pc = "new"
    /\ bcast.workers > 0
    /\ bcast' = [bcast EXCEPT !.pc = IF \A w \in 1..bcast.workers : bcast.has[w]
                                     THEN "initial" ELSE "error"]
    /\ UNCHANGED nobcastvars

\* the first poll of the request: every MsgRequest is Initial and sends its
\* message, the GetId of every worker and the message of every worker
Broadcast_poll ==
    /\ bcast.pc = "initial"
    /\ bcast' = [bcast EXCEPT !.pc = "pending",
                              !.mail = [w \in 1..bcast.workers |-> <<"GetId", "Msg">>],
                              !.sent = 2 * bcast.workers]
    /\ UNCHANGED nobcastvars

\* the actor of worker w handles the next message of its mailbox and the
\* reply completes its request
Broadcast_handle(w) ==
    /\ w \in 1..bcast.workers
    /\ bcast.pc = "pending"
    /\ bcast.mail[w] # <<>>
    /\ bcast' = IF Head(bcast.mail[w]) = "GetId"
                THEN [bcast EXCEPT !.mail[w] = Tail(@),
                          !.ids = Append(@, [from |-> w, out |-> ActorId(w, bcast.workers)])]
                ELSE [bcast EXCEPT !.mail[w] = Tail(@),
                          !.resps = Append(@, [from |-> w, out |-> bcast.val[w]])]
    /\ UNCHANGED nobcastvars

\* every request completed: the map of the ids to the replies
Broadcast_ready ==
    /\ bcast.pc = "pending"
    /\ Len(bcast.ids) = bcast.workers
    /\ Len(bcast.resps) = bcast.workers
    /\ bcast' = [bcast EXCEPT !.pc = "done",
                    !.result = Zip(join_all(bcast.workers, bcast.ids),
                                   join_all(bcast.workers, bcast.resps))]
    /\ UNCHANGED nobcastvars

\* ------------------------------------------------------- the message request

\* what is not the message request
noreqvars == <<corevars, budget, mgrvars, killer, arb, bcast>>

\* the owner can call or poll the request
Owned ==
    /\ mreq.owner = "held"
    /\ mreq.outcome # "panic"
    /\ mreq.steps > 0

\* MsgRequest::immediately
MsgRequest_immediately ==
    /\ Owned
    /\ mreq' = IF mreq.state = "Initial"
               THEN [do_send(mreq) EXCEPT !.owner = "moved", !.steps = @ - 1,
                                          !.outcome = "sent"]
               ELSE [mreq EXCEPT !.owner = "moved", !.steps = @ - 1, !.outcome = "panic"]
    /\ UNCHANGED noreqvars

\* MsgRequest::blocking: target.send is evaluated, then block_on, which
\* panics inside a runtime and drops the Request
MsgRequest_blocking(in_runtime) ==
    /\ Owned
    /\ mreq' = IF mreq.state = "Initial"
               THEN IF in_runtime
                    THEN [addr_send(mreq) EXCEPT !.owner = "moved", !.steps = @ - 1,
                                                 !.parked = FALSE, !.outcome = "panic"]
                    ELSE [addr_send(mreq) EXCEPT !.owner = "blocked", !.steps = @ - 1]
               ELSE [mreq EXCEPT !.owner = "moved", !.steps = @ - 1, !.outcome = "panic"]
    /\ UNCHANGED noreqvars

\* block_on polls the Request: the message it holds is sent when there is
\* room, the reply ends the call
MsgRequest_block_on ==
    /\ mreq.owner = "blocked"
    /\ \/ mreq.parked /\ Len(mreq.mailbox) < MailboxCapacity
       \/ mreq.replied
    /\ mreq' = IF mreq.replied THEN [mreq EXCEPT !.owner = "moved", !.outcome = "reply"]
               ELSE addr_send(mreq)
    /\ UNCHANGED noreqvars

\* Future::poll of the request
MsgRequest_poll ==
    /\ Owned
    /\ LET r == [mreq EXCEPT !.steps = @ - 1, !.polls = @ + 1]
       IN  mreq' =
             CASE mreq.state = "Initial" -> [addr_send(r) EXCEPT !.state = "Pending"]
               [] mreq.state = "Pending" ->
                     IF mreq.replied THEN [r EXCEPT !.state = Sealed, !.outcome = "reply"]
                     ELSE IF mreq.parked THEN addr_send(r)
                     ELSE r
               [] OTHER -> [r EXCEPT !.outcome = "panic"]
    /\ UNCHANGED noreqvars

\* the target actor handles the next message of its mailbox; it replies
\* to the message of the request
Target_handle ==
    /\ mreq.mailbox # <<>>
    /\ mreq' = [mreq EXCEPT !.mailbox = Tail(@),
                            !.replied = @ \/ Head(mreq.mailbox) = "msg"]
    /\ UNCHANGED noreqvars

\* another sender puts a message into the mailbox, which has room
Other_send ==
    /\ mreq.others > 0
    /\ Len(mreq.mailbox) < MailboxCapacity
    /\ mreq' = [mreq EXCEPT !.mailbox = Append(@, "other"), !.others = @ - 1]
    /\ UNCHANGED noreqvars

\* ---------------------------------------------------------- specifications

\* The steal protocol: every document is held and heartbeated, the clock
\* stands still, every scheduler runs TrySchedule on its own.
InitSteal ==
    \E owner \in [1..NDoc -> Sched] :
        InitWith(NDoc, NDoc, owner, 0, [NoBudget EXCEPT !.reqs = MaxStealOps], NoDriver)

NextSteal ==
    \/ \E s \in Sched : TrySchedule(s, "Auto")
    \/ \E s \in Sched : now_ts(s)
    \/ \E s \in Sched : do_acquire(s)
    \/ \E s \in Sched : do_schedule_once_count(s)
    \/ \E s \in Sched : do_schedule_once_workers(s)
    \/ \E s \in Sched : do_schedule_once_tasks(s)
    \/ \E s \in Sched : do_schedule_once_cas(s)

SpecSteal == InitSteal /\ [][NextSteal]_vars

\* The handlers of the schedulers are polled whenever their store call
\* returned.
FairSteal ==
    /\ WF_vars(\E s \in Sched : now_ts(s))
    /\ WF_vars(\E s \in Sched : do_acquire(s))
    /\ WF_vars(\E s \in Sched : do_schedule_once_count(s))
    /\ WF_vars(\E s \in Sched : do_schedule_once_workers(s))
    /\ WF_vars(\E s \in Sched : do_schedule_once_tasks(s))
    /\ WF_vars(\E s \in Sched : do_schedule_once_cas(s))

\* The retry loop: every document is held by the first scheduler and
\* heartbeated, the clock stands still, the schedulers run finitely many
\* TrySchedule requests on their own.
InitRetry ==
    InitWith(NDoc, NDoc, [d \in 1..NDoc |-> 1], 0,
             [NoBudget EXCEPT !.reqs = MaxStealOps], NoDriver)

SpecRetry == InitRetry /\ [][NextSteal]_vars /\ FairSteal

\* The steal protocol while task documents are inserted: every document
\* is held by the first scheduler and heartbeated, the clock stands still.
InitCount ==
    InitWith(NDoc, NDoc, [d \in 1..NDoc |-> 1], 0,
             [NoBudget EXCEPT !.reqs = MaxStealOps, !.sets = MaxSets], NoDriver)

NextCount ==
    \/ NextSteal
    \/ set

SpecCount == InitCount /\ [][NextCount]_vars

\* Takeover under a running clock: one document that was not scheduled
\* yet; every scheduler runs TrySchedule on its own; the runners only renew.
InitTakeover ==
    InitWith(1, 0, <<>>, 0,
             [NoBudget EXCEPT !.time = MaxTime, !.reqs = MaxTakeoverRequests],
             NoDriver)

NextTakeover ==
    \/ Tick
    \/ \E s \in TakeoverSched : TrySchedule(s, "Auto")
    \/ \E s \in TakeoverSched : now_ts(s)
    \/ \E s \in TakeoverSched : do_acquire(s)
    \/ \E s \in TakeoverSched : do_schedule_once_count(s)
    \/ \E s \in TakeoverSched : do_schedule_once_workers(s)
    \/ \E i \in Rid : RunnerHeartbeat(i)
    \/ \E s \in TakeoverSched, i \in Rid : UpdateEntry(s, i, "hb")
    \/ \E s \in TakeoverSched : UpdateEntryApply(s, TRUE)
    \/ \E s \in TakeoverSched : UpdateEntryReply(s)
    \/ \E i \in Rid : RunnerHeartbeatReply(i)

SpecTakeover == InitTakeover /\ [][NextTakeover]_vars

\* The runners of the schedulers of RunnerSched: renewal, guarded publish,
\* and the lease operations that take their leases away.
Init ==
    InitWith(NRunnerDoc, NRunnerDoc, [d \in 1..NRunnerDoc |-> 1], 0,
             [NoBudget EXCEPT !.time = MaxRunnerTime, !.reqs = MaxRequests,
                              !.errors = MaxErrors],
             NoDriver)

Next ==
    \/ Tick
    \/ \E s \in RunnerSched : TrySchedule(s, "Auto")
    \/ \E s \in RunnerSched : now_ts(s)
    \/ \E s \in RunnerSched : do_acquire(s)
    \/ \E s \in RunnerSched : do_schedule_once_count(s)
    \/ \E s \in RunnerSched : do_schedule_once_workers(s)
    \/ \E s \in RunnerSched : do_schedule_once_tasks(s)
    \/ \E s \in RunnerSched : do_schedule_once_cas(s)
    \/ \E i \in Rid : RunnerHeartbeat(i)
    \/ \E i \in Rid : RunnerItem(i)
    \/ \E s \in RunnerSched, i \in Rid, which \in {"hb", "tc"} : UpdateEntry(s, i, which)
    \/ \E s \in RunnerSched, ok \in BOOLEAN : UpdateEntryApply(s, ok)
    \/ \E s \in RunnerSched : UpdateEntryReply(s)
    \/ \E i \in Rid : RunnerHeartbeatReply(i)
    \/ \E i \in Rid : Handler_ToCollector(i)
    \/ \E i \in Rid : ToCollector(i)

Spec == Init /\ [][Next]_vars

\* Balancing by one driver: the documents are held by the workers in any
\* assignment and were heartbeated one clock unit ago; the workers that hold
\* documents have registered, the others register meanwhile; the driver has
\* MaxScheduleAlls ScheduleAll messages due; no store call fails.
InitBalance ==
    \E owner \in [1..NBalanceDoc -> BalanceSched] :
        InitWith(NBalanceDoc, NBalanceDoc, owner, 1,
                 [NoBudget EXCEPT !.reqs = MaxBeats],
                 [NoDriver EXCEPT !.registered = AddrsOf({owner[d] : d \in 1..NBalanceDoc}),
                                  !.registering = BalanceSched \ {owner[d] : d \in 1..NBalanceDoc},
                                  !.pending = [k \in 1..MaxScheduleAlls |->
                                                 ScheduleAllMsg("StealOnly", 1)]])

NextBalance ==
    \/ \E s \in BalanceSched : Handler_RegisterScheduler(s)
    \/ \E k \in 1..Len(drv.pending) : ScheduleAll(k)
    \/ \E s \in BalanceSched : schedule_one_round(s)
    \/ \E s \in BalanceSched : now_ts(s)
    \/ \E s \in BalanceSched : do_acquire(s)
    \/ \E s \in BalanceSched : do_schedule_once_count(s)
    \/ \E s \in BalanceSched : do_schedule_once_workers(s)
    \/ \E s \in BalanceSched : do_schedule_once_tasks(s)
    \/ \E s \in BalanceSched : do_schedule_once_cas(s)
    \/ \E i \in Rid : RunnerHeartbeat(i)
    \/ \E s \in BalanceSched, i \in Rid : UpdateEntry(s, i, "hb")
    \/ \E s \in BalanceSched : UpdateEntryApply(s, TRUE)
    \/ \E s \in BalanceSched : UpdateEntryReply(s)
    \/ \E i \in Rid : RunnerHeartbeatReply(i)
    \/ \E s \in BalanceSched : TriggerGC(s)

SpecBalance == InitBalance /\ [][NextBalance]_vars

\* The arbiter polls the ScheduleAll future of the driver and the handlers
\* of the schedulers whenever they can proceed.
FairBalance ==
    /\ WF_vars(\E s \in BalanceSched : schedule_one_round(s))
    /\ WF_vars(\E s \in BalanceSched : now_ts(s))
    /\ WF_vars(\E s \in BalanceSched : do_acquire(s))
    /\ WF_vars(\E s \in BalanceSched : do_schedule_once_count(s))
    /\ WF_vars(\E s \in BalanceSched : do_schedule_once_workers(s))
    /\ WF_vars(\E s \in BalanceSched : do_schedule_once_tasks(s))
    /\ WF_vars(\E s \in BalanceSched : do_schedule_once_cas(s))

\* The passes of the driver alone: the schedulers register and answer the
\* driver, the runners do not heartbeat meanwhile.
InitPass ==
    \E owner \in [1..NBalanceDoc -> BalanceSched] :
        InitWith(NBalanceDoc, NBalanceDoc, owner, 1, NoBudget,
                 [NoDriver EXCEPT !.registered = AddrsOf({owner[d] : d \in 1..NBalanceDoc}),
                                  !.registering = BalanceSched \ {owner[d] : d \in 1..NBalanceDoc},
                                  !.pending = [k \in 1..MaxScheduleAlls |->
                                                 ScheduleAllMsg("StealOnly", 1)]])

NextPass ==
    \/ \E s \in BalanceSched : Handler_RegisterScheduler(s)
    \/ \E k \in 1..Len(drv.pending) : ScheduleAll(k)
    \/ \E s \in BalanceSched : schedule_one_round(s)
    \/ \E s \in BalanceSched : now_ts(s)
    \/ \E s \in BalanceSched : do_acquire(s)
    \/ \E s \in BalanceSched : do_schedule_once_count(s)
    \/ \E s \in BalanceSched : do_schedule_once_workers(s)
    \/ \E s \in BalanceSched : do_schedule_once_tasks(s)
    \/ \E s \in BalanceSched : do_schedule_once_cas(s)

SpecPass == InitPass /\ [][NextPass]_vars /\ FairBalance

\* The driver under the clock: the documents were scheduled to worker 1,
\* which has registered, and heartbeated at time 0 and are not heartbeated
\* again, one runner may die; the other workers register meanwhile;
\* the driver started within the last schedule_interval; the clock may
\* advance at any step.
TimedHorizon == MaxIntervalMs + ScheduleInterval + 2 * MaxJitter

InitTimed ==
    \E p \in 1..ScheduleInterval :
        InitWith(NTimedDoc, NTimedDoc, [d \in 1..NTimedDoc |-> 1], 0,
                 [NoBudget EXCEPT !.time = TimedHorizon, !.errors = 1,
                                  !.late = MaxLate],
                 [NoDriver EXCEPT !.registered = <<1>>,
                                  !.registering = TimedSched \ {1},
                                  !.started = p - ScheduleInterval,
                                  !.next_schedule = p,
                                  !.next_balance = p - ScheduleInterval + BalanceInterval])

NextTimed ==
    \/ Tick
    \/ schedule_interval_tick
    \/ balance_interval_tick
    \/ \E s \in TimedSched : Handler_RegisterScheduler(s)
    \/ \E k \in 1..Len(drv.pending) : ScheduleAll(k)
    \/ \E s \in TimedSched : schedule_one_round(s)
    \/ \E s \in TimedSched : now_ts(s)
    \/ \E s \in TimedSched : do_acquire(s)
    \/ \E s \in TimedSched : do_schedule_once_count(s)
    \/ \E s \in TimedSched : do_schedule_once_workers(s)
    \/ \E s \in TimedSched : do_schedule_once_tasks(s)
    \/ \E s \in TimedSched : do_schedule_once_cas(s)
    \/ \E i \in Rid : RunnerError(i)
    \/ \E s \in TimedSched : TriggerGC(s)

SpecTimed == InitTimed /\ [][NextTimed]_vars

\* The modes of TrySchedule: the documents 1..NDoc are held by worker 1 and
\* heartbeated, one more document was never scheduled; the clock stands
\* still; every scheduler is sent TrySchedule in any mode.
InitMode ==
    InitWith(NDoc + 1, NDoc, [d \in 1..NDoc |-> 1], 0,
             [NoBudget EXCEPT !.reqs = MaxStealOps], NoDriver)

NextMode ==
    \/ \E s \in Sched, msg \in ScheduleMode : TrySchedule(s, msg)
    \/ \E s \in Sched : now_ts(s)
    \/ \E s \in Sched : do_acquire(s)
    \/ \E s \in Sched : do_schedule_once_count(s)
    \/ \E s \in Sched : do_schedule_once_workers(s)
    \/ \E s \in Sched : do_schedule_once_tasks(s)
    \/ \E s \in Sched : do_schedule_once_cas(s)

SpecMode == InitMode /\ [][NextMode]_vars

\* The collector of one process: a runner publishes MaxEvents events; a
\* lookup, a build or a send may fail MaxFailures times in all.
InitCollector ==
    InitWith(0, 0, <<>>, 0,
             [NoBudget EXCEPT !.events = MaxEvents, !.fails = MaxFailures],
             NoDriver)

NextCollector ==
    \/ Handler_Publish
    \/ \E e \in 1..MaxEvents, found \in BOOLEAN : Publish_expand(e, found)
    \/ \E d \in Dest, succ \in BOOLEAN : Wake_Send(d, succ)
    \/ \E d \in Dest, built \in BOOLEAN : Wake_EstablishConnection(d, built)
    \/ \E d \in Dest : Wake_EarlyWake(d)
    \/ TimerAdvance

SpecCollector == InitCollector /\ [][NextCollector]_vars

\* The collector under its scheduling: a lookup, a send and a build return,
\* a due Wake is handled (the actor polls its futures and its mailbox), the
\* timers of notify_later fire. After MaxFailures failures every call
\* succeeds: the destinations are and stay reachable.
FairCollector ==
    /\ WF_vars(\E e \in 1..MaxEvents, found \in BOOLEAN : Publish_expand(e, found))
    /\ WF_vars(\E d \in Dest, succ \in BOOLEAN : Wake_Send(d, succ))
    /\ WF_vars(\E d \in Dest, built \in BOOLEAN : Wake_EstablishConnection(d, built))
    /\ WF_vars(\E d \in Dest : Wake_EarlyWake(d))
    /\ WF_vars(TimerAdvance)

SpecCollectorLive == InitCollector /\ [][NextCollector]_vars /\ FairCollector

\* Heartbeats only: the documents are held by worker 1 with any cursor; the
\* runners renew periodically and the scheduler is sent UpdateAll; no store
\* call fails.
InitHeartbeat ==
    \E cur \in [1..NHeartbeatDoc -> NoCursor..MaxCursor] :
        InitSince(NHeartbeatDoc, NHeartbeatDoc, [d \in 1..NHeartbeatDoc |-> 1], cur, 0,
                  [NoBudget EXCEPT !.time = MaxTime, !.reqs = MaxBeats,
                                   !.uas = MaxUpdateAlls],
                  NoDriver)

NextHeartbeat ==
    \/ Tick
    \/ \E s \in RunnerSched, evict \in BOOLEAN : UpdateAll(s, evict)
    \/ \E s \in RunnerSched, ua \in 1..MaxUpdateAlls : UpdateAllPoll(s, ua)
    \/ \E s \in RunnerSched : \E e \in uaPending[s] : UpdateAllEntry(s, e, TRUE)
    \/ \E s \in RunnerSched : \E e \in uaPending[s] : UpdateAllReply(s, e)
    \/ \E i \in Rid : RunnerStop(i)
    \/ \E i \in Rid : RunnerHeartbeat(i)
    \/ \E s \in RunnerSched, i \in Rid : UpdateEntry(s, i, "hb")
    \/ \E s \in RunnerSched : UpdateEntryApply(s, TRUE)
    \/ \E s \in RunnerSched : UpdateEntryReply(s)
    \/ \E i \in Rid : RunnerHeartbeatReply(i)
    \/ \E s \in RunnerSched : TriggerGC(s)

SpecHeartbeat == InitHeartbeat /\ [][NextHeartbeat]_vars

\* Housekeeping while runners die: the documents are held by worker 1; a
\* runner may stop on an upstream error; the scheduler reaps its handles and
\* is sent UpdateAll with evict set, by its own interval and by the status
\* endpoint; no store call fails.
InitStatus ==
    InitWith(NRunnerDoc, NRunnerDoc, [d \in 1..NRunnerDoc |-> 1], 0,
             [NoBudget EXCEPT !.time = MaxTime, !.reqs = MaxBeats,
                              !.uas = MaxUpdateAlls, !.errors = MaxErrors],
             NoDriver)

NextStatus ==
    \/ Tick
    \/ \E s \in RunnerSched : UpdateAll(s, TRUE)
    \/ \E s \in RunnerSched, ua \in 1..MaxUpdateAlls : UpdateAllPoll(s, ua)
    \/ \E s \in RunnerSched : \E e \in uaPending[s] : UpdateAllEntry(s, e, TRUE)
    \/ \E s \in RunnerSched : \E e \in uaPending[s] : UpdateAllReply(s, e)
    \/ \E i \in Rid : RunnerStop(i)
    \/ \E i \in Rid : RunnerError(i)
    \/ \E i \in Rid : RunnerHeartbeat(i)
    \/ \E s \in RunnerSched, i \in Rid : UpdateEntry(s, i, "hb")
    \/ \E s \in RunnerSched : UpdateEntryApply(s, TRUE)
    \/ \E s \in RunnerSched : UpdateEntryReply(s)
    \/ \E i \in Rid : RunnerHeartbeatReply(i)
    \/ \E s \in RunnerSched : TriggerGC(s)

SpecStatus == InitStatus /\ [][NextStatus]_vars

\* Bililive runners: the documents are held by worker 1; each runner
\* connects its stream, renews periodically, publishes its packets.
InitBililive ==
    InitWith(NRunnerDoc, NRunnerDoc, [d \in 1..NRunnerDoc |-> 1], 0,
             [NoBudget EXCEPT !.time = MaxTime, !.reqs = MaxRequests,
                              !.errors = MaxErrors],
             NoDriver)

NextBililive ==
    \/ Tick
    \/ \E i \in Rid, ok \in BOOLEAN : RunnerConnect(i, ok)
    \/ \E i \in Rid : RunnerError(i)
    \/ \E i \in Rid : RunnerItem(i)
    \/ \E i \in Rid : RunnerHeartbeat(i)
    \/ \E s \in RunnerSched, i \in Rid, which \in {"hb", "tc"} : UpdateEntry(s, i, which)
    \/ \E s \in RunnerSched : UpdateEntryApply(s, TRUE)
    \/ \E s \in RunnerSched : UpdateEntryReply(s)
    \/ \E i \in Rid : RunnerHeartbeatReply(i)
    \/ \E i \in Rid : Handler_ToCollector(i)
    \/ \E i \in Rid : ToCollector(i)

SpecBililive == InitBililive /\ [][NextBililive]_vars

\* Twitter runners: the documents are held by worker 1 with no cursor; each
\* runner fetches periodically, stores its cursor and publishes its tweets.
InitTwitter ==
    InitWith(NRunnerDoc, NRunnerDoc, [d \in 1..NRunnerDoc |-> 1], 0,
             [NoBudget EXCEPT !.time = MaxTime, !.reqs = MaxRequests,
                              !.errors = MaxErrors],
             NoDriver)

NextTwitter ==
    \/ Tick
    \/ \E i \in Rid : TwitterFetch(i)
    \/ \E i \in Rid, k \in 1..MaxRequests, res \in {"err", "none", "new"} :
          TwitterFetched(i, k, res)
    \/ \E s \in RunnerSched, i \in Rid, which \in {"cu", "tc"} : UpdateEntry(s, i, which)
    \/ \E s \in RunnerSched, ok \in BOOLEAN : UpdateEntryApply(s, ok)
    \/ \E s \in RunnerSched : UpdateEntryReply(s)
    \/ \E i \in Rid : TwitterReply(i)
    \/ \E i \in Rid : Handler_ToCollector(i)
    \/ \E i \in Rid : ToCollector(i)

SpecTwitter == InitTwitter /\ [][NextTwitter]_vars

\* The admin API: every name is in the store with one linked field or is
\* not; the clients send requests, whose handlers interleave at their awaits.
InitManager ==
    /\ InitCore(0, 0, <<>>, <<>>, 0, [NoBudget EXCEPT !.http = MaxHttp], NoDriver)
    /\ \E present \in SUBSET Names : StoreWith(present)
    /\ http = [c \in Client |-> IdleHttp]
    /\ killer = NoKiller
    /\ arb = NoArbiter
    /\ bcast = NoBroadcast
    /\ mreq = NoRequest

NextManager ==
    \/ \E c \in Client, n \in Names : create(c, n)
    \/ \E c \in Client, n \in Names : delete(c, n)
    \/ \E c \in Client : delete_refs(c)
    \/ \E c \in Client : delete_drop(c)
    \/ \E c \in Client, n \in Names, k \in Kind : field_get(c, n, k)
    \/ \E c \in Client : field_get_ref(c)
    \/ \E c \in Client, n \in Names, k \in Kind, m \in BOOLEAN : field_put(c, n, k, m)
    \/ \E c \in Client : field_put_set(c)
    \/ \E c \in Client : field_put_insert(c)
    \/ \E c \in Client : field_put_link(c)
    \/ \E c \in Client, n \in Names, k \in Kind : field_delete(c, n, k)
    \/ \E c \in Client : field_delete_ref(c)
    \/ \E c \in Client : field_delete_unlink(c)

SpecManager == InitManager /\ [][NextManager]_vars


\* The killer, with and without an HTTP server, whose workers were started.
InitKiller ==
    /\ InitCore(0, 0, <<>>, <<>>, 0, NoBudget, NoDriver)
    /\ vtubers = {} /\ entries = {} /\ nextOid = 0
    /\ http = [c \in Client |-> IdleHttp]
    /\ \/ killer = KillerActor_new("none", <<>>, MaxDrops, MaxWork)
       \/ killer = KillerActor_new("started", <<>>, MaxDrops, MaxWork)
    /\ arb = NoArbiter
    /\ bcast = NoBroadcast
    /\ mreq = NoRequest

NextKiller ==
    \/ \E panicking \in BOOLEAN : Drop(panicking)
    \/ Server_run_register
    \/ Handler_RegisterHttpServer
    \/ Handler_Kill
    \/ ServerStopped
    \/ WorkSleep
    \/ WorkDone
    \/ System_run

SpecKiller == InitKiller /\ [][NextKiller]_vars

\* No-HTTP mode: the workers stop in any order, with or without their
\* signal, while the server future is polled.
InitArbiter ==
    /\ InitCore(0, 0, <<>>, <<>>, 0, NoBudget, NoDriver)
    /\ vtubers = {} /\ entries = {} /\ nextOid = 0
    /\ http = [c \in Client |-> IdleHttp]
    /\ killer = NoKiller
    /\ \E n \in 1..MaxWorkers : arb = ArbiterHandler_new(n, MaxPolls)
    /\ bcast = NoBroadcast
    /\ mreq = NoRequest

NextArbiter ==
    \/ \E w \in 1..MaxWorkers : WatchdogActor_stopped(w)
    \/ \E w \in 1..MaxWorkers : WatchdogActor_drop(w)
    \/ ArbiterHandler_poll_step

SpecArbiter == InitArbiter /\ [][NextArbiter]_vars

\* A broadcast over the workers of the process, each with or without an
\* actor for the target, each actor with its reply.
InitBroadcast ==
    /\ InitCore(0, 0, <<>>, <<>>, 0, NoBudget, NoDriver)
    /\ vtubers = {} /\ entries = {} /\ nextOid = 0
    /\ http = [c \in Client |-> IdleHttp]
    /\ killer = NoKiller
    /\ arb = NoArbiter
    /\ \E n \in 1..MaxWorkers :
           \E has \in [1..n -> BOOLEAN], val \in [1..n -> BOOLEAN] :
               bcast = InstanceContext_new(n, has, val)
    /\ mreq = NoRequest

NextBroadcast ==
    \/ InstanceContext_send
    \/ Broadcast_poll
    \/ \E w \in 1..MaxWorkers : Broadcast_handle(w)
    \/ Broadcast_ready

SpecBroadcast == InitBroadcast /\ [][NextBroadcast]_vars

\* A message request to a live actor, whose mailbox other senders fill,
\* called and polled by its owner in any way.
InitRequest ==
    /\ InitCore(0, 0, <<>>, <<>>, 0, NoBudget, NoDriver)
    /\ vtubers = {} /\ entries = {} /\ nextOid = 0
    /\ http = [c \in Client |-> IdleHttp]
    /\ killer = NoKiller
    /\ arb = NoArbiter
    /\ bcast = NoBroadcast
    /\ mreq = MsgRequest_new(<<>>, MaxOthers, MaxPolls + 1)

NextRequest ==
    \/ MsgRequest_immediately
    \/ \E in_runtime \in BOOLEAN : MsgRequest_blocking(in_runtime)
    \/ MsgRequest_block_on
    \/ MsgRequest_poll
    \/ Target_handle
    \/ Other_send

SpecRequest == InitRequest /\ [][NextRequest]_vars

\* ------------------------------------------------------------------ claims

\* C1: when two or more schedulers run acquire-outdated concurrently against
\* the same orphaned document, at most one of them obtains it: a ScheduleOp
\* that was racing for document d when another one took d over never takes d
\* over itself.
C1_AtMostOneTakeoverWins ==
    \A r1, r2 \in acquired :
        (r1.kind = "takeover" /\ r2.kind = "takeover" /\ r1.doc = r2.doc)
            => r2.uuid \notin r1.racers

\* C2: no two runners, alive or not, in any scheduler, were ever constructed
\* with the same (doc_id, lease_uuid) pair.
C2_UniqueLeasePerRunner ==
    \A i, j \in Rid :
        i # j => <<runners[i].info.doc, runners[i].info.uuid>>
                   # <<runners[j].info.doc, runners[j].info.uuid>>

\* two runners are alive for the same document, under different leases
C2_Witness ==
    \E i, j \in Rid :
        /\ i # j
        /\ runners[i].alive /\ runners[j].alive
        /\ runners[i].info.doc = runners[j].info.doc
        /\ runners[i].info.parent # runners[j].info.parent

\* C3 as stated: every event is published while the publishing runner still
\* holds the lease.
C3_NoPublishAfterLeaseLost ==
    \A p \in published : p.held

\* C3 amended: the ownership check of every published event was executed
\* while the runner's lease was the current one; a check executed after the
\* lease was replaced fails and its runner stops without publishing.
C3_PublishCheckedWhileHeld ==
    /\ \A p \in published : p.checked
    /\ \A i \in Rid : \A c \in Checks(runners[i]) : c.st = "true" => c.matched
    /\ \A i \in Rid : \A c \in Checks(runners[i]) :
          (c.st = "failed" /\ ~c.matched)
              => /\ ~runners[i].alive
                 /\ ~\E p \in published : p.rid = i /\ p.item = c.item

\* a runner checked ownership after its lease was replaced, and stopped
C3_Witness ==
    \E i \in Rid : \E c \in Checks(runners[i]) :
        /\ c.st = "failed"
        /\ ~c.matched
        /\ ~LeaseHeld(runners[i].info)
        /\ ~runners[i].alive

\* C4: an item is published only after the ownership check issued for it
\* returned true; if the check returned false or failed, the item is not
\* published and the runner has stopped.
C4_PublishOnlyAfterCheck ==
    /\ \A p \in published : p.reply = "true"
    /\ \A i \in Rid : \A c \in Checks(runners[i]) :
          c.st = "failed"
              => /\ ~runners[i].alive
                 /\ ~\E p \in published : p.rid = i /\ p.item = c.item

\* an item was published after its ownership check returned true
C4_Witness ==
    \E p \in published : p.reply = "true" /\ p.checked /\ runners[p.rid].alive

Orphan(d) ==
    /\ docs[d].ts # NoTs
    /\ ~\E i \in Rid : runners[i].alive /\ runners[i].info = InfoOfDoc(d)

\* C6 as stated: a document whose runner died is acquired by a worker within
\* max_interval + schedule_interval of its last heartbeat.
C6_AcquiredWithinIntervals ==
    \A d \in Docs :
        Orphan(d) => now <= docs[d].ts + MaxIntervalMs + ScheduleInterval

\* C6 amended: as long as the timers of the driver fired on time and its
\* passes took less than a clock unit, a document whose runner died is
\* acquired by a worker within max_interval + schedule_interval + the
\* largest random delay of the driver of its last heartbeat.
C6_AcquiredWithinIntervalsAndJitter ==
    \A d \in Docs :
        (Orphan(d) /\ ~drv.late) =>
            now <= docs[d].ts + MaxIntervalMs + ScheduleInterval + MaxJitter

\* a document whose runner died was taken over at the latest possible time
\* by a driver that was never late
C6_Witness ==
    /\ ~drv.late
    /\ \E r \in acquired :
        /\ r.kind = "takeover"
        /\ r.prev # NoUuid
        /\ r.age = MaxIntervalMs + ScheduleInterval + MaxJitter
        /\ \E i \in Rid : /\ runners[i].info.doc = r.doc
                          /\ runners[i].info.uuid = r.prev
                          /\ ~runners[i].alive

\* C7: the step that ends a ScheduleAll of the driver leaves every one of the
\* W workers registered with the driver with floor(N/W) or ceil(N/W)
\* documents; a ScheduleAll that started from such a state obtains nothing.
C7_BalancedAfterScheduleAll ==
    /\ [][(drv.pc = "round" /\ drv'.pc = "idle") => Balanced']_vars
    /\ [](drv.startBalanced => drv.somes = 0)

\* C8: no lease incarnation is stolen twice, and every ScheduleOp that was
\* about to steal the incarnation another one stole has observed a conflict
\* or is still about to.
C8_NoDoubleSteal ==
    /\ \A r1, r2 \in acquired :
          (r1.kind = "steal" /\ r2.kind = "steal" /\ r1 # r2)
              => <<r1.doc, r1.prev>> # <<r2.doc, r2.prev>>
    /\ \A r \in acquired : \A u \in r.racers :
          r.kind = "steal"
              => \/ \E o \in Sched : /\ sop[o].uuid = u
                                     /\ sop[o].pc = "cas"
                                     /\ sop[o].victim_task.doc = r.doc
                                     /\ sop[o].victim_task.uuid = r.prev
                 \/ \E c \in acquired : /\ c.kind = "conflict"
                                        /\ c.uuid = u
                                        /\ c.doc = r.doc
                                        /\ c.prev = r.prev

\* two schedulers tried to steal the same task: one stole it, the other
\* observed the conflict
C8_Witness ==
    \E r, c \in acquired :
        /\ r.kind = "steal" /\ c.kind = "conflict"
        /\ c.uuid \in r.racers
        /\ c.doc = r.doc /\ c.prev = r.prev

\* C9: update_entry returns true exactly when a document with info's doc_id
\* and lease_uuid existed at the time of the call.
C9_UpdateEntryReturnsMatched ==
    \A i \in Rid :
        \A k \in 1..Len(runners[i].reqs) :
            LET c == runners[i].reqs[k]
            IN c.st \in {"true", "false"} => (c.st = "true" <=> c.matched)

\* C10: a takeover only ever acquires a document whose heartbeat is missing
\* or older than now - max_interval.
C10_TakeoverOnlyStale ==
    \A r \in acquired :
        r.kind = "takeover" => (r.age = NoTs \/ r.age > MaxIntervalMs)

\* a lease that was not renewed for more than max_interval was taken over
C10_Witness ==
    \E r \in acquired :
        r.kind = "takeover" /\ r.prev # NoUuid /\ r.age > MaxIntervalMs

\* C11: try_schedule honours its mode: a scheduler that was sent OutdatedOnly
\* acquires only by takeover, never by a steal (nor does it attempt one and
\* observe a conflict); a scheduler that was sent StealOnly acquires only by
\* a steal.
C11_ModeHonoured ==
    \A r \in acquired :
        /\ r.msg = "OutdatedOnly" => r.kind = "takeover"
        /\ r.msg = "StealOnly" => r.kind \in {"steal", "conflict"}

\* C12: for each destination, the events of the runner that were delivered
\* were delivered in the order the runner produced them.
C12_DeliveredInProductionOrder ==
    \A d \in Dest : \A j, k \in 1..Len(delivered[d]) :
        j < k => delivered[d][j] < delivered[d][k]

\* C13: the queue of every destination holds at most the ring capacity.
C13_QueueWithinCapacity ==
    \A d \in Dest : Len(collectors[d].queue) <= RingCapacity

\* a full queue has dropped an event and is full again
C13_Witness ==
    \E d \in Dest :
        /\ Len(collectors[d].queue) = RingCapacity
        /\ chist.dropped[d] # {}

\* the newest min(n, RingCapacity) of the events 1..n, in production order
Newest(n) ==
    LET m == IF n < RingCapacity THEN n ELSE RingCapacity
    IN [k \in 1..m |-> n - m + k]

\* C14: a destination from whose queue nothing was taken yet (it is Uninit
\* or in Backoff), after all of the n events published so far were looked up
\* and enqueued, holds exactly the newest min(n, capacity) events in
\* production order.
C14_NewestKeptInOrder ==
    \A d \in Dest :
        (~chist.popped[d] /\ pubs = {} /\ chist.lost = {})
            => collectors[d].queue = Newest(chist.sent)

\* the step of Handler<Wake> in which the send of the front event to the
\* Available destination d fails
SendFailed(d) ==
    /\ collectors[d].state = "Available"
    /\ collectors'[d].state # "Available"

\* what C15 says of that step: Backoff with a deadline retry_delay ahead, the
\* event back at the front, a Wake due at the deadline
BackoffEntered(d) ==
    /\ collectors'[d].state = "DelayedEstablish"
    /\ collectors'[d].deadline = now + RetryDelay
    /\ collectors'[d].queue # <<>>
    /\ Head(collectors'[d].queue) = Head(collectors[d].queue)
    /\ \E k \in 1..Len(wakes'[d]) : wakes'[d][k] = now + RetryDelay

\* C15 as stated: a failed send enters Backoff as described, and the first
\* event sent after a failed send is the event that failed.
C15_FailedEventResentFirst ==
    /\ [][\A d \in Dest : SendFailed(d) => BackoffEntered(d)]_vars
    /\ [](\A r \in chist.resent : r.first = r.failed)

\* C15 amended: a failed send enters Backoff as described, and the first
\* event sent after a failed send is the event that failed, unless the ring
\* overflowed during the Backoff and dropped it.
C15_FailedEventResentFirstUnlessDropped ==
    /\ [][\A d \in Dest : SendFailed(d) => BackoffEntered(d)]_vars
    /\ [](\A r \in chist.resent : r.overflowed \/ r.first = r.failed)
    /\ [](\A d \in Dest :
            (chist.failed[d].event # NoEvent /\ ~chist.failed[d].overflowed)
                => /\ collectors[d].queue # <<>>
                   /\ Head(collectors[d].queue) = chist.failed[d].event)

\* an event whose send failed was delivered on the retry before a later
\* event that was enqueued during the Backoff
C15_Witness ==
    \E r \in chist.resent :
        /\ r.first = r.failed
        /\ ~r.overflowed
        /\ Len(delivered[r.dest]) >= 2
        /\ \E k \in 1..(Len(delivered[r.dest]) - 1) :
              /\ delivered[r.dest][k] = r.failed
              /\ delivered[r.dest][k + 1] > r.failed

\* a non-empty queue has a Wake pending
WakePending ==
    \A d \in Dest : collectors[d].queue # <<>> => wakes[d] # <<>>

\* between the steps of the collector a destination with a non-empty queue
\* always has a Wake pending, immediate or delayed, and every enqueued event
\* is eventually delivered or was dropped by overflow, the destination being
\* reachable from some time on
C16_EnqueuedEventuallyDelivered ==
    /\ []WakePending
    /\ \A d \in Dest : \A e \in 1..MaxEvents :
          (e \in Events(collectors[d].queue))
              ~> (e \in Events(delivered[d]) \/ e \in chist.dropped[d])

\* C16: every enqueued event is eventually delivered unless overflow dropped
\* it, a non-empty queue always has a Wake pending, and the events of a
\* destination are delivered in the order in which they were published,
\* those published while it could not be reached included.
C16_EnqueuedDeliveredInOrder ==
    /\ C16_EnqueuedEventuallyDelivered
    /\ [](\A d \in Dest : \A j, k \in 1..Len(delivered[d]) :
             j < k => delivered[d][j] < delivered[d][k])

\* C17: at most one Wake of a destination is pending, immediate or delayed
\* (the Wake being handled is not pending any more, and its handler is one
\* step).
C17_OneWakeInFlight ==
    \A d \in Dest : Len(wakes[d]) <= 1

\* C18: a heartbeat with an empty patch, by a runner or by UpdateAll, leaves
\* every field of every document but the timestamp as it was.
C18_HeartbeatOnlyTimestamp ==
    [][\A d \in Docs : [docs'[d] EXCEPT !.ts = NoTs] = [docs[d] EXCEPT !.ts = NoTs]]_vars

\* a document with a cursor was heartbeated, more than once
C18_Witness ==
    \E d \in Docs :
        /\ docs[d].since # NoCursor
        /\ docs[d].ts >= 2
        /\ \E i \in Rid : runners[i].info = InfoOfDoc(d) /\ runners[i].hbFired

\* C19: a runner whose upstream connection failed has stopped.
C19_UpstreamErrorStops ==
    \A i \in Rid : runners[i].upstream = "failed" => ~runners[i].alive

\* C20: the cursor stored in a document is not ahead of the events published
\* for it, and the events of a runner that stopped without publishing them
\* are not behind the stored cursor.
C20_CursorAfterPublish ==
    /\ \A d \in Docs :
          docs[d].since = NoCursor
              \/ \E p \in published : p.doc = d /\ p.cursor >= docs[d].since
    /\ \A i \in Rid : \A c \in Checks(runners[i]) :
          (~runners[i].alive
             /\ ~\E p \in published : p.rid = i /\ p.item = c.item)
              => docs[runners[i].info.doc].since < c.cursor
    /\ \A i \in Rid : \A k \in 1..Len(runners[i].notified) :
          ~runners[i].alive => docs[runners[i].info.doc].since < runners[i].notified[k]

\* C27: update_all heartbeats every handle and sends the stop to a runner
\* only if evict is set and the heartbeat of that runner did not match its
\* lease; it stops no other runner and neither adds nor removes a handle.
C27_EvictOnlyUnmatched ==
    [][\A s \in DOMAIN actors : \A e \in uaPending[s] :
          (e.st \in {"true", "false", "err"} /\ e \notin uaPending'[s]) =>
              /\ actors' = actors
              /\ \A j \in Rid \ {e.i} : runners'[j] = runners[j]
              /\ (~runners[e.i].stopping /\ runners'[e.i].stopping) =>
                     (e.evict /\ ~e.matched)]_vars

\* the step of Handler<TrySchedule> in which scheduler s won a lease and
\* inserted the handle of the runner it constructed
HandleInserted(s) ==
    /\ sop[s].pc # "idle"
    /\ sop'[s].pc = "idle"
    /\ Len(runners') = Len(runners) + 1
    /\ actors'[s] = actors[s] \cup {Len(runners')}

\* the step of Handler<TriggerGC> of scheduler s: exactly the handles of the
\* runners that are not alive are removed
HandlesReaped(s) ==
    /\ actors'[s] = {i \in actors[s] : runners[i].alive}
    /\ runners' = runners

\* C28: the handles map of a scheduler changes only by the insertion of a
\* successful try_schedule or by a reap, and a reap removes exactly the
\* handles whose runner is no longer alive.
C28_ReapExactlyDead ==
    [][\A s \in DOMAIN actors :
          actors'[s] # actors[s] => (HandleInserted(s) \/ HandlesReaped(s))]_vars

\* a dead runner was reaped from a map that still holds a live runner
C28_Witness ==
    \E s \in DOMAIN actors : \E i, j \in Rid :
        /\ runners[i].info.parent = s
        /\ ~runners[i].alive
        /\ i \notin actors[s]
        /\ j \in actors[s]
        /\ runners[j].alive

\* C29: the total N a steal attempt reads counts only the live tasks: the
\* documents whose heartbeat is recent for the attempt.
C29_CountOnlyLive ==
    [][\A s \in DOMAIN sop :
          (sop[s].pc = "count" /\ sop'[s].pc = "workers") =>
              sop'[s].entries_count =
                  Cardinality({d \in Docs : Recent(d, sop[s].since_ts)})]_vars

\* the step of do_schedule_once in which scheduler s chose its victim, or
\* found none
VictimChosen(s) ==
    LET workers == GetWorkerInfoOp(sop[s].since_ts, s)
        self_count == sop[s].actor_count
        expected == sop[s].entries_count \div (Cardinality(workers) + 1)
        threshold == IF self_count < expected THEN expected ELSE expected + 1
        over == {w \in workers : w.count > threshold}
    IN /\ docs' = docs
       /\ IF over = {} \/ self_count > expected
          THEN sop'[s].pc = "idle"
          ELSE /\ sop'[s].pc = "tasks"
               /\ sop'[s].threshold = threshold
               /\ \E w \in over : sop'[s].victim = w.id

\* C30: a steal attempt uses threshold = expected if self_count < expected
\* and expected + 1 otherwise, chooses its victim among the peers whose live
\* count is above the threshold, and returns none without writing a document
\* if there is no such peer or self_count > expected.
C30_VictimAboveThreshold ==
    [][\A s \in DOMAIN sop :
          (sop[s].pc = "workers" /\ sop'[s].pc # "workers") => VictimChosen(s)]_vars

\* an underloaded scheduler chose a victim at threshold expected, and a
\* scheduler at expected chose one at threshold expected + 1
C30_Witness ==
    \E s \in DOMAIN sop :
        /\ sop[s].pc = "tasks"
        /\ sop[s].threshold >= 1
        /\ sop[s].actor_count < sop[s].threshold

\* C21: a create of a name that is not in the store answers 204 and adds
\* the entity with an empty fields map and nothing else; a create of a name
\* that is in the store answers 409 and changes neither the entities nor
\* the documents their fields refer to.
C21_CreateThenConflict ==
    [][\A c \in Client : (Arrived(c) /\ http'[c].op = "create") =>
          LET n == http'[c].name
              existed == \E v \in vtubers : v.name = n
          IN  /\ http'[c].pc = "done"
              /\ entries' = entries
              /\ ~existed =>
                    /\ http'[c].status = 204
                    /\ \E v \in vtubers' \ vtubers :
                          /\ v.name = n
                          /\ v.fields = NoFields
                          /\ vtubers' = vtubers \cup {v}
              /\ existed =>
                    /\ http'[c].status = 409
                    /\ vtubers' = vtubers]_vars

\* the answered requests of the field handlers
FieldOps == {"get", "put", "del"}

\* C22: a PUT with a malformed payload answers 400; a GET, a DELETE or a
\* PUT with a well-formed payload on an entity that is not in the store
\* answers 404; a GET or DELETE of a field the entity does not have answers
\* 404; a GET, a replacing PUT or a DELETE whose reference was there and
\* whose target document was not answers 500.
C22_FieldStatuses ==
    \A c \in Client : (http[c].pc = "done" /\ http[c].op \in FieldOps) =>
        LET r == http[c]
        IN  /\ (r.op = "put" /\ r.malformed) => r.status = 400
            /\ (~r.seen.entity /\ ~r.malformed) => r.status = 404
            /\ (r.op \in {"get", "del"} /\ r.seen.entity /\ ~r.seen.field) => r.status = 404
            /\ r.seen.target = "absent" => r.status = 500

\* C22 as stated: every field operation on an entity that is not in the
\* store answers 404, whatever its payload.
C22_FieldStatusesAnyPayload ==
    \A c \in Client : (http[c].pc = "done" /\ http[c].op \in FieldOps) =>
        LET r == http[c]
        IN  /\ (r.op = "put" /\ r.malformed) => r.status = 400
            /\ ~r.seen.entity => r.status = 404
            /\ (r.op \in {"get", "del"} /\ r.seen.entity /\ ~r.seen.field) => r.status = 404
            /\ r.seen.target = "absent" => r.status = 500

\* a field operation found the reference and not its target, and was
\* answered 500
C22_Witness ==
    \E c \in Client :
        /\ http[c].pc = "done" /\ http[c].op \in FieldOps
        /\ http[c].seen.field
        /\ http[c].seen.target = "absent"
        /\ http[c].status = 500

\* this step is the handler of Kill
KillHandled ==
    /\ killer.mailbox # <<>>
    /\ Head(killer.mailbox).type = "Kill"
    /\ killer'.mailbox = Tail(killer.mailbox)

\* C23: every Kill the killer receives from a dropped actor is graceful;
\* its handler, with a server registered, asks the server to stop
\* gracefully and leaves the system running, and the process ends when the
\* server has stopped; with none registered it stops the system (the stop
\* is requested in the same step); no scheduled work completes after the
\* kill of a system without server was handled.
C23_KillStops ==
    [][/\ \A i \in 1..Len(killer'.mailbox) :
              killer'.mailbox[i].type = "Kill" => killer'.mailbox[i].graceful
       /\ KillHandled =>
              IF killer.registered
              THEN /\ killer'.srv \in {"stopping", "stopped"}
                   /\ killer'.stop_graceful
                   /\ killer'.system = killer.system
              ELSE /\ killer'.system \in {"stopping", "stopped"}
                   /\ killer'.srv = killer.srv
       /\ (killer.process = "running" /\ killer'.process = "exited") =>
              killer'.srv = "stopped"
       /\ killer'.asleep < killer.asleep => killer.killed # "system"
       /\ killer'.late = 0]_vars

\* C24: a poll of the server future resolves exactly if as many signals as
\* there are workers were sent or every sender of the channel is dropped;
\* with fewer signals and a sender left it is pending.
C24_ResolvesWhenAllStoppedOrClosed ==
    [][arb'.polls < arb.polls =>
          (arb'.result = "ready" <=>
              (Signals(arb) = arb.workers \/ Senders(arb) = 0))
          /\ arb'.result \in {"ready", "pending"}]_vars

\* the future was pending with some of several workers stopped, and
\* resolved by the last signal with senders left
C24_Witness ==
    /\ arb.workers > 1
    /\ arb.result = "ready"
    /\ arb.stop_count = 0
    /\ arb.polls < MaxPolls - 1
    /\ Senders(arb) > 0

\* C25: a broadcast over workers that all have an actor for the target
\* never fails with a context error and results in the map with one entry
\* per worker, from that worker's actor id to that worker's actor's reply;
\* a broadcast over workers of which one has no actor for the target fails
\* with the context error and sends no message.
C25_BroadcastMap ==
    LET W == 1..bcast.workers
        all == \A w \in W : bcast.has[w]
    IN  /\ bcast.pc = "error" => (~all /\ bcast.sent = 0)
        /\ ~all => (bcast.pc \in {"new", "error"} /\ bcast.sent = 0
                    /\ \A w \in W : bcast.mail[w] = <<>>)
        /\ bcast.pc = "done" =>
              /\ all
              /\ bcast.result = {<<ActorId(w, bcast.workers), bcast.val[w]>> : w \in W}
              /\ Cardinality(bcast.result) = bcast.workers

\* a broadcast over several workers with different replies is done, the
\* replies having completed in another order than the requests
C25_Witness ==
    /\ bcast.pc = "done"
    /\ bcast.workers > 1
    /\ \E v, w \in 1..bcast.workers : bcast.val[v] # bcast.val[w]
    /\ \E i \in 1..bcast.workers : bcast.ids[i].from # bcast.resps[i].from
    /\ \E i \in 1..bcast.workers : bcast.resps[i].from # i

\* C26: the request only goes from Initial to Pending and from Pending to
\* Gone; its message is put into the mailbox of the target at most once,
\* and once when immediately returned, the awaited reply came or blocking
\* returned; immediately and blocking on a request that is not Initial
\* panic and send nothing; a poll of a request that is Gone panics and
\* sends nothing.
C26_SentOnceInOrder ==
    [][/\ mreq'.state # mreq.state =>
              \/ mreq.state = "Initial" /\ mreq'.state = "Pending"
              \/ mreq.state = "Pending" /\ mreq'.state = "Gone"
       /\ mreq'.handed <= 1
       /\ mreq'.outcome \in {"sent", "reply"} => mreq'.handed = 1
       /\ (mreq.owner = "held" /\ mreq'.owner # "held" /\ mreq.state # "Initial") =>
              (mreq'.outcome = "panic" /\ mreq'.handed = mreq.handed)
       /\ (mreq'.polls > mreq.polls /\ mreq.state = "Gone") =>
              (mreq'.outcome = "panic" /\ mreq'.handed = mreq.handed
               /\ mreq'.state = "Gone")]_vars

\* a request that was awaited to its reply was polled again and panicked,
\* its message having been sent once
C26_Witness ==
    /\ mreq.state = "Gone"
    /\ mreq.outcome = "panic"
    /\ mreq.handed = 1
    /\ mreq.replied

\* the step put a ScheduleAll(mode) with a delay of the jitter range into
\* the driver's mailbox
Issued(mode) ==
    /\ Len(drv'.pending) = Len(drv.pending) + 1
    /\ SubSeq(drv'.pending, 1, Len(drv.pending)) = drv.pending
    /\ drv'.pending[Len(drv'.pending)].mode = mode
    /\ drv'.pending[Len(drv'.pending)].at - now \in JitterRange

\* C31: every firing of the fast timer issues a ScheduleAll(OutdatedOnly);
\* the first firing of the slow timer, one balance_interval after the
\* start, issues nothing and every later one issues a ScheduleAll(StealOnly);
\* no ScheduleAll(StealOnly) is issued before 2 * balance_interval after
\* the start of the driver.
C31_SlowTimerSkipsFirst ==
    [][/\ drv'.next_schedule # drv.next_schedule => Issued("OutdatedOnly")
       /\ drv'.next_balance # drv.next_balance =>
              IF drv.next_balance = drv.started + BalanceInterval
              THEN drv'.pending = drv.pending
              ELSE Issued("StealOnly")
       /\ Issued("StealOnly") => now >= drv.started + 2 * BalanceInterval]_vars

\* the slow timer fired twice and its steal pass is in the mailbox
C31_Witness ==
    /\ drv.next_balance # NoTimer
    /\ ~drv.skip_once
    /\ now >= drv.started + 2 * BalanceInterval
    /\ \E k \in 1..Len(drv.pending) : drv.pending[k].mode = "StealOnly"

\* the schedulers of the round in progress that returned Some so far, then
\* the scheduler that answers in this step if its handler acquired a lease
RoundKept ==
    IF \E a \in acquired' \ acquired : a.sched = drv.waiting
    THEN Append(drv.new_addrs, drv.waiting)
    ELSE drv.new_addrs

\* C32: a ScheduleAll pass starts with all registered schedulers; a round
\* sends TrySchedule to the kept schedulers one after the other, each once;
\* when the last answer of a round arrives the next round is made of exactly
\* the schedulers that returned Some, in order, and the pass ends if there
\* is none; with the task set fixed every pass in progress ends.
C32_PassRounds ==
    /\ [][/\ (drv.pc = "idle" /\ drv'.pc = "round") =>
                 /\ drv'.addrs = drv.registered
                 /\ drv'.new_addrs = <<>>
                 /\ drv'.waiting = 0
          /\ (drv.waiting = 0 /\ drv'.waiting # 0) =>
                 /\ drv'.waiting = Head(drv.addrs)
                 /\ sop[drv'.waiting].pc = "idle"
                 /\ sop'[drv'.waiting].pc # "idle"
                 /\ drv'.addrs = drv.addrs
                 /\ drv'.new_addrs = drv.new_addrs
          /\ (drv.waiting # 0 /\ drv'.waiting = 0) =>
                 /\ sop'[drv.waiting].pc = "idle"
                 /\ IF Tail(drv.addrs) # <<>>
                    THEN /\ drv'.pc = "round"
                         /\ drv'.addrs = Tail(drv.addrs)
                         /\ drv'.new_addrs = RoundKept
                    ELSE /\ drv'.addrs = RoundKept
                         /\ drv'.new_addrs = <<>>
                         /\ drv'.pc = IF RoundKept = <<>> THEN "idle" ELSE "round"
          /\ (drv.waiting = 0 /\ drv'.waiting = 0 /\ drv.pc = "round") =>
                 /\ drv'.pc = "round"
                 /\ drv'.addrs = drv.addrs
                 /\ drv'.new_addrs = drv.new_addrs]_vars
    /\ [](drv.pc = "round" => <>(drv.pc = "idle"))

\* a pass ended after a round in which a scheduler returned a task and a
\* last round in which none did
C32_Witness ==
    /\ drv.pc = "idle"
    /\ drv.runs >= 1
    /\ drv.somes >= 1
    /\ \E a \in acquired : a.kind = "steal"

\* C33: a steal attempt of a ScheduleOp goes back to its first store call
\* exactly when it ended in conflict (the victim has too few tasks by now,
\* or the update matched no document); the own count and since_ts of the
\* operation stay as they were; the operation ends with a lease acquired
\* or with the store untouched; with finitely many TrySchedule requests
\* every operation in progress ends.
C33_RetryTerminates ==
    /\ [][\A s \in Sched :
             sop'[s] # sop[s] =>
                /\ sop[s].pc = "workers" => sop'[s].pc \in {"tasks", "idle"}
                /\ sop[s].pc = "tasks" =>
                      /\ sop'[s].pc \in {"cas", "count"}
                      /\ sop'[s].pc = "count" <=>
                            Cardinality(GetTasksOnWorkerOp(sop[s].since_ts, sop[s].victim))
                               <= sop[s].threshold
                /\ sop[s].pc = "cas" =>
                      /\ sop'[s].pc \in {"idle", "count"}
                      /\ sop'[s].pc = "count" <=> ~CheckOwnershipOp(sop[s].victim_task)
                /\ (sop[s].pc # "idle" /\ sop'[s].pc # "idle") =>
                      /\ sop'[s].actor_count = sop[s].actor_count
                      /\ sop'[s].since_ts = sop[s].since_ts
                /\ (sop[s].pc \notin {"idle", "new"} /\ sop'[s].pc # "idle") =>
                      /\ sop'[s].now_ts = sop[s].now_ts
                      /\ sop'[s].uuid = sop[s].uuid
                /\ (sop[s].pc # "idle" /\ sop'[s].pc = "idle") =>
                      \/ \E a \in acquired' \ acquired :
                            a.sched = s /\ a.kind \in {"takeover", "steal"}
                      \/ docs' = docs /\ acquired' = acquired]_vars
    /\ \A s \in Sched : [](sop[s].pc # "idle" => <>(sop[s].pc = "idle"))

\* a ScheduleOp that met a conflict, retried and ended
C33_Witness ==
    \E s \in Sched :
        /\ sop[s].pc = "idle"
        /\ \E a \in acquired : a.kind = "conflict" /\ a.sched = s

\* C34: while the lease uuid of a runner's TaskInfo is not the uuid on its
\* document, CheckOwnershipOp on that TaskInfo finds nothing, no
\* UpdateEntry handled for the runner is answered with true and none changes
\* a document, and a steal whose victim TaskInfo is no longer the current
\* lease ends in conflict and changes no document.
C34_StaleLeaseNeverMatches ==
    [][/\ \A i \in 1..Len(runners) :
             ~LeaseHeld(runners[i].info) =>
                /\ ~CheckOwnershipOp(runners[i].info)
                /\ \A s \in Sched :
                      (/\ sop[s].pc = "update"
                       /\ sop[s].ue.rid = i
                       /\ sop'[s].pc = "updated") =>
                         /\ sop'[s].ue.res # "true"
                         /\ docs' = docs
       /\ \A s \in Sched :
             (sop[s].pc = "cas" /\ sop'[s] # sop[s] /\ ~LeaseHeld(sop[s].victim_task)) =>
                /\ sop'[s].pc = "count"
                /\ docs' = docs]_vars

\* a live runner whose lease was replaced by a takeover or a steal was
\* answered false by the store
C34_Witness ==
    \E i \in 1..Len(runners) :
        /\ runners[i].alive
        /\ ReplyArrived(runners[i], "hb")
        /\ runners[i].reqs[1].st = "false"
        /\ \E a \in acquired :
              /\ a.kind \in {"takeover", "steal"}
              /\ a.doc = runners[i].info.doc
              /\ a.prev = runners[i].info.uuid

\* C35: the step of a PUT or DELETE of the field of one kind that links or
\* unlinks the reference leaves the references of the entity to every other
\* kind as they were.
C35_OtherKindsKept ==
    [][\A c \in Client :
          (http[c].pc \in {"link", "unlink"} /\ http'[c].pc = "done") =>
              \A v \in vtubers :
                  v.name = http[c].name =>
                      \E w \in vtubers' :
                          /\ w.id = v.id
                          /\ \A k \in Kind \ {http[c].kind} : w.fields[k] = v.fields[k]]_vars

\* C36: the step of a Wake whose send failed leaves the queue of the
\* destination as it was before the pop, the failed event at its front, and
\* drops no event, also when the queue was full.
C36_RequeueDropsNothing ==
    [][\A d \in Dest :
          (collectors[d].state = "Available" /\ collectors'[d].state = "DelayedEstablish") =>
              /\ collectors'[d].queue = collectors[d].queue
              /\ Head(collectors'[d].queue) = chist'.failed[d].event
              /\ chist'.dropped = chist.dropped
              /\ pubs' = pubs]_vars

\* a send failed for an event popped from a full queue, and the queue is
\* full again with the failed event at its front
C36_Witness ==
    \E d \in Dest :
        /\ collectors[d].state = "DelayedEstablish"
        /\ chist.failed[d].full
        /\ ~chist.failed[d].overflowed
        /\ Len(collectors[d].queue) = RingCapacity
        /\ Head(collectors[d].queue) = chist.failed[d].event

\* C37: every step that handles a due Wake of a destination in state
\* Available finds an event in the queue of the destination.
C37_WakeFindsEvent ==
    [][\A d \in Dest :
          (/\ collectors[d].state = "Available"
           /\ WakeDue(d)
           /\ pubs' = pubs
           /\ now' = now
           /\ <<collectors[d], wakes[d], delivered[d]>>' #
                  <<collectors[d], wakes[d], delivered[d]>>) =>
              collectors[d].queue # <<>>]_vars

\* C38: the victim a steal attempt selects is another scheduler that, in
\* the worker info the attempt read, holds at least two tasks more than the
\* thief has runner handles; the task it selects is one of at least that
\* many the victim held when they were read; a successful steal moves that
\* task from the selected victim, never from the thief itself, to the thief.
C38_StealFromLoadedPeer ==
    [][\A s \in DOMAIN sop :
          LET local == Cardinality({runners[i].info : i \in actors[s]})
              t == sop[s].victim_task
          IN /\ (sop[s].pc = "workers" /\ sop'[s].pc = "tasks") =>
                    \E w \in GetWorkerInfoOp(sop[s].since_ts, s) :
                        /\ w.id = sop'[s].victim
                        /\ w.id # s
                        /\ w.count >= local + 2
             /\ (sop[s].pc = "tasks" /\ sop'[s].pc = "cas") =>
                    /\ Cardinality(GetTasksOnWorkerOp(sop[s].since_ts, sop[s].victim))
                          >= local + 2
                    /\ sop'[s].victim_task.parent = sop[s].victim
             /\ (sop[s].pc = "cas" /\ sop'[s].pc = "idle") =>
                    /\ docs[t.doc].parent = sop[s].victim
                    /\ sop[s].victim # s
                    /\ docs'[t.doc].parent = s
                    /\ \A d \in Docs \ {t.doc} : docs'[d] = docs[d]]_vars

\* a scheduler holds the task it stole from a peer that held three and
\* holds two now
C38_Witness ==
    \E a \in acquired :
        /\ a.kind = "steal"
        /\ docs[a.doc].uuid = a.uuid
        /\ docs[a.doc].parent = a.sched
        /\ \E v \in DOMAIN sop \ {a.sched} :
              Cardinality({d \in Docs : docs[d].parent = v}) >= 2

\* C39: a live runner whose lease is the current one of its document and
\* whose renewal was answered with a store error is still live after it
\* handled the answer.
C39_ErrorKeepsLease ==
    [][\A i \in 1..Len(runners) :
          (/\ runners[i].alive
           /\ ReplyArrived(runners[i], "hb")
           /\ runners[i].reqs[1].st = "err"
           /\ runners'[i].reqs = Tail(runners[i].reqs)
           /\ LeaseHeld(runners[i].info)) =>
              runners'[i].alive]_vars

\* C40: no heartbeat of UpdateAll for a handle whose runner had stopped
\* when the UpdateAll was handled changes a document.
C40_NoRenewalForDeadRunner ==
    [][\A s \in DOMAIN uaPending : \A e \in uaPending[s] :
          (e.st = "sent" /\ e \notin uaPending'[s] /\ ~e.live) => docs' = docs]_vars

====
